---- MODULE Spec2Model ----
(***************************************************************************)
(* A model of release-note: the commit classifier (src/src/analyzer.rs)    *)
(* and the release range resolver and history walk (src/src/git.rs).       *)
(*                                                                         *)
(* Strings are sequences of one-character strings, so that the regular     *)
(* expression of the classifier, `contains` and `starts_with` are computed *)
(* character by character.  An Option<T> is a sequence of length 0 (None)  *)
(* or 1 (Some).                                                            *)
(***************************************************************************)
EXTENDS Integers, Sequences, FiniteSets, TLC

VARIABLES
    pc,           \* position of the running operation
    commits,      \* analyze: the input slice of Commit
    i,            \* analyze: index of the next commit of the for loop
    by_category,  \* analyze: HashMap<CommitCategory, Vec<Commit>>
    repo,         \* history: the repository (commit graph, tags, head)
    from,         \* history: the `from` argument, Option<String>
    to,           \* history: the `to` argument, Option<String>
    path_filter,  \* history: GitRepo.path_filter, Option<PathBuf>
    tags,         \* history: the sorted tag catalog, Vec<Tag>
    from_oid,     \* history: Oid of the resolved `from`
    to_oid,       \* history: Option<Oid> of the resolved `to`
    revwalk,      \* history: commits the revision walk has still to yield
    hist_commits, \* history: the Vec<Commit> being collected (as Oids)
    parts,        \* parser: the parts the commit message was written from
    message,      \* parser: the raw message, commit.message()
    parsed_commit, \* parser: the Commit built by from_git2_commit, once built
    resolver,     \* contributors: the GitHubResolver or GitLabResolver
    resolve_log,  \* contributors: the calls of resolve so far, what each
                  \* asked of the platform and what it returned
    env,          \* platform: the environment variables of the process
    origin_url,   \* platform: the argument of Platform::detect
    platform,     \* platform: the Platform detected, once detected
    files,        \* template: the template candidates in the working directory
    template      \* template: the Result of TemplateResolver::resolve

vars == <<pc, commits, i, by_category, repo, from, to, path_filter, tags,
          from_oid, to_oid, revwalk, hist_commits, parts, message,
          parsed_commit, resolver, resolve_log, env, origin_url, platform,
          files, template>>

analyzerVars == <<commits, i, by_category>>
historyVars ==
    <<repo, from, to, path_filter, tags, from_oid, to_oid, revwalk, hist_commits>>
parserVars == <<parts, message, parsed_commit>>
resolverVars == <<resolver, resolve_log>>
platformVars == <<env, origin_url, platform>>
templateVars == <<files, template>>
serviceVars == <<resolverVars, platformVars, templateVars>>

(***************************************************************************)
(* Bounds                                                                  *)
(***************************************************************************)
\* most calls of resolve on one resolver
MaxResolves == 3
\* the scoped path has the contents 0..MaxTree in the trees (0: absent)
MaxTree == 1
\* most paragraphs of the body of a message
MaxParas == 2
\* longest run of blank lines between two paragraphs
MaxBlank == 4
\* longest list of commits handed to analyze
MaxCommits == 3
\* commit times are 1..MaxTime
MaxTime == 2
\* most tags of a repository
MaxTags == 2
\* most releases of a repository whose `to` is inferred
MaxReleases == 3

(***************************************************************************)
(* Characters and strings                                                  *)
(***************************************************************************)
Lower == {"a", "b", "c", "d", "e", "f", "g", "h", "i", "j", "k", "l", "m",
          "n", "o", "p", "q", "r", "s", "t", "u", "v", "w", "x", "y", "z"}
Upper == {"A", "B", "C", "D", "E", "F", "G", "H", "I", "J", "K", "L", "M",
          "N", "O", "P", "Q", "R", "S", "T", "U", "V", "W", "X", "Y", "Z"}
Digit == {"0", "1", "2", "3", "4", "5", "6", "7", "8", "9"}
Whitespace == {" ", "\t"}
Letter == Lower \cup Upper

None == <<>>
Some(x) == <<x>>

\* str::starts_with
StartsWith(s, p) ==
    /\ Len(p) <= Len(s)
    /\ \A k \in 1..Len(p) : s[k] = p[k]

\* str::contains
Contains(s, sub) ==
    \E k \in 0..(Len(s) - Len(sub)) :
        \A j \in 1..Len(sub) : s[k + j] = sub[j]

\* length of the longest run of characters of class cls that starts at p
RECURSIVE RunLen(_, _, _)
RunLen(s, p, cls) ==
    IF p <= Len(s) /\ s[p] \in cls THEN 1 + RunLen(s, p + 1, cls) ELSE 0

S_feat == <<"f", "e", "a", "t">>
S_fix == <<"f", "i", "x">>
S_docs == <<"d", "o", "c", "s">>
S_ci == <<"c", "i">>
S_test == <<"t", "e", "s", "t">>
S_perf == <<"p", "e", "r", "f">>
S_chore == <<"c", "h", "o", "r", "e">>
S_refactor == <<"r", "e", "f", "a", "c", "t", "o", "r">>
S_build == <<"b", "u", "i", "l", "d">>
S_style == <<"s", "t", "y", "l", "e">>
S_deps == <<"d", "e", "p", "s">>
S_bang_colon == <<"!", ":">>
S_breaking_change_colon ==
    <<"B", "R", "E", "A", "K", "I", "N", "G", " ", "C", "H", "A", "N", "G", "E", ":">>

(***************************************************************************)
(* CommitAnalyzer                                                          *)
(***************************************************************************)
\* enum CommitCategory
CommitCategory ==
    {"Breaking", "Feature", "Fix", "Dependencies", "Documentation", "CI",
     "Test", "Performance", "Chore", "Other"}

\* The header expression  ^(T+)(?:\((S+)\))?!?:\s+.+  for a class T of type
\* characters and a class S of scope characters.  No character of T or S is
\* one of ( ) ! : so the match is decided without backtracking: the type is
\* the longest run of T, the group is taken iff a '(' follows, the '!' iff a
\* '!' follows; \s+.+ asks for a whitespace and at least one more character.
HeaderMatch(line, TypeCls, ScopeCls) ==
    LET n == Len(line)
        tlen == RunLen(line, 1, TypeCls)
        p1 == tlen + 1
        paren == p1 <= n /\ line[p1] = "("
        slen == IF paren THEN RunLen(line, p1 + 1, ScopeCls) ELSE 0
        group == /\ paren
                 /\ slen >= 1
                 /\ p1 + 1 + slen <= n
                 /\ line[p1 + 1 + slen] = ")"
        p2 == IF group THEN p1 + slen + 2 ELSE p1
        bang == p2 <= n /\ line[p2] = "!"
        p3 == IF bang THEN p2 + 1 ELSE p2
        ok == /\ tlen >= 1
              /\ p3 <= n /\ line[p3] = ":"
              /\ p3 + 1 <= n /\ line[p3 + 1] \in Whitespace
              /\ p3 + 2 <= n
    IN  [ok |-> ok,
         type |-> IF ok THEN SubSeq(line, 1, tlen) ELSE <<>>,
         scope |-> IF ok /\ group THEN Some(SubSeq(line, p1 + 1, p1 + slen)) ELSE None,
         bang |-> ok /\ bang]

\* fn parse_conventional_commit: Option<(type, Option<scope>)>
parse_conventional_commit(first_line) ==
    LET m == HeaderMatch(first_line, Lower, Lower \cup {"-"})
    IN  IF m.ok THEN Some([type |-> m.type, scope |-> m.scope]) ELSE None

\* is_breaking without the test of the first line
is_breaking_footer_only(commit) ==
    /\ commit.footer # None
    /\ StartsWith(commit.footer[1], S_breaking_change_colon)

\* fn is_breaking
is_breaking(commit) ==
    \/ Contains(commit.first_line, S_bang_colon)
    \/ /\ commit.footer # None
       /\ StartsWith(commit.footer[1], S_breaking_change_colon)

\* the match on commit_type of categorize
TypeCategory(commit_type) ==
    CASE commit_type = S_feat \/ commit_type = S_refactor -> "Feature"
      [] commit_type = S_fix -> "Fix"
      [] commit_type = S_docs -> "Documentation"
      [] commit_type = S_ci -> "CI"
      [] commit_type = S_test -> "Test"
      [] commit_type = S_perf -> "Performance"
      [] commit_type = S_chore -> "Chore"
      [] OTHER -> "Other"

\* fn categorize
categorize(commit) ==
    IF is_breaking(commit) THEN "Breaking"
    ELSE LET parsed == parse_conventional_commit(commit.first_line)
         IN  IF parsed # None
             THEN IF /\ parsed[1].scope = Some(S_deps)
                     /\ parsed[1].type \in {S_fix, S_chore, S_build}
                  THEN "Dependencies"
                  ELSE TypeCategory(parsed[1].type)
             ELSE "Other"

\* insert(category, vec![commit]) in place of entry().or_default().push()
EntryInsert(map, category, commit) ==
    [k \in DOMAIN map \cup {category} |->
        IF k = category THEN <<commit>> ELSE map[k]]

\* insert(0, commit) in place of push(commit)
EntryOrDefaultPushFront(map, category, commit) ==
    [k \in DOMAIN map \cup {category} |->
        IF k = category
        THEN <<commit>> \o (IF k \in DOMAIN map THEN map[k] ELSE <<>>)
        ELSE map[k]]

\* by_category.entry(category).or_default().push(commit)
EntryOrDefaultPush(map, category, commit) ==
    [k \in DOMAIN map \cup {category} |->
        IF k = category
        THEN (IF k \in DOMAIN map THEN map[k] ELSE <<>>) \o <<commit>>
        ELSE map[k]]

(***************************************************************************)
(* Inputs of the classifier                                                *)
(***************************************************************************)
\* first lines  <type><scope><bang><separator><description>
TypeWords ==
    {S_feat, S_fix, S_docs, S_ci, S_test, S_perf, S_chore, S_refactor,
     S_build, S_style, <<"F", "e", "a", "t">>, <<"F", "I", "X">>}
Scopes ==
    {<<>>, <<"(">> \o S_deps \o <<")">>, <<"(", "c", "o", "r", "e", ")">>,
     <<"(", "D", "e", "p", "s", ")">>, <<"(", "a", "p", "i", "-", "2", ")">>,
     <<"(", ")">>}
Bangs == {<<>>, <<"!">>}
Separators == {<<":", " ">>, <<":">>, <<":", " ", " ">>}
Descriptions == {<<"x">>, <<>>}

\* first lines that have no header shape at all
FreeLines ==
    {<<>>, <<"h", "i">>, <<"o", "h", " ", "n", "o", "!", ":", " ", "x">>,
     <<"!", ":", " ", "x">>, <<"a", "!", " ", "b">>,
     <<"(", "x", ")", ":", " ", "y">>}

FirstLines ==
    {t \o s \o b \o p \o d :
        t \in TypeWords, s \in Scopes, b \in Bangs, p \in Separators,
        d \in Descriptions} \cup FreeLines

\* footers: one or two `Key: x` trailer lines, joined by a newline
TrailerKeys ==
    {<<"B", "R", "E", "A", "K", "I", "N", "G", " ", "C", "H", "A", "N", "G", "E">>,
     <<"B", "R", "E", "A", "K", "I", "N", "G", "-", "C", "H", "A", "N", "G", "E">>,
     <<"B", "r", "e", "a", "k", "i", "n", "g", "-", "C", "h", "a", "n", "g", "e">>,
     <<"B", "R", "E", "A", "K", "I", "N", "G", " ", "C", "H", "A", "N", "G", "E", "S">>,
     <<"S", "i", "g", "n", "e", "d", "-", "o", "f", "f", "-", "b", "y">>}
TrailerLine(key) == key \o <<":", " ", "x">>
Footers ==
    {None}
    \cup {Some(TrailerLine(k)) : k \in TrailerKeys}
    \cup {Some(TrailerLine(ks[1]) \o <<"\n">> \o TrailerLine(ks[2])) :
            ks \in {p \in TrailerKeys \X TrailerKeys : p[1] # p[2]}}

\* the first lines of the lists of several commits
PoolLines ==
    {S_feat \o <<":", " ", "x">>, S_fix \o <<":", " ", "x">>,
     S_feat \o <<"!", ":", " ", "x">>, <<"h", "i">>}

RECURSIVE SeqsUpTo(_, _)
SeqsUpTo(S, n) ==
    IF n = 0 THEN {<<>>}
    ELSE LET shorter == SeqsUpTo(S, n - 1)
         IN  shorter \cup {Append(q, x) : q \in {r \in shorter : Len(r) = n - 1}, x \in S}

\* struct Commit, with the fields the classifier reads and the hash; the
\* hash is the position in the input, which makes every commit distinct
MakeCommits(msgs) ==
    [k \in 1..Len(msgs) |->
        [hash |-> k, first_line |-> msgs[k].first_line, footer |-> msgs[k].footer]]

AnalyzeInputs ==
    {MakeCommits(<<[first_line |-> l, footer |-> f]>>) : l \in FirstLines, f \in Footers}
    \cup {MakeCommits(q) :
            q \in SeqsUpTo({[first_line |-> l, footer |-> None] : l \in PoolLines},
                           MaxCommits)}

(***************************************************************************)
(* CommitAnalyzer::analyze, one iteration of its loop at a time            *)
(***************************************************************************)
EmptyMap == [k \in {} |-> <<>>]

\* no contributor is being resolved
ResolverIdle ==
    /\ resolver = <<>>
    /\ resolve_log = <<>>

\* no platform is being detected
PlatformIdle ==
    /\ env = <<>>
    /\ origin_url = <<>>
    /\ platform = <<>>

\* no template is being resolved
TemplateIdle ==
    /\ files = <<>>
    /\ template = <<>>

ServiceIdle == ResolverIdle /\ PlatformIdle /\ TemplateIdle


\* no message is being parsed
ParserIdle ==
    /\ parts = <<>>
    /\ message = <<>>
    /\ parsed_commit = None

HistoryIdle ==
    /\ repo = [parents |-> <<>>, time |-> <<>>, tree |-> <<>>, tags |-> <<>>,
               head |-> 0, fails |-> <<>>]
    /\ from = None
    /\ to = None
    /\ path_filter = None
    /\ tags = <<>>
    /\ from_oid = 0
    /\ to_oid = None
    /\ revwalk = {}
    /\ hist_commits = <<>>

InitAnalyze ==
    /\ pc = "analyze"
    /\ commits \in AnalyzeInputs
    /\ i = 1
    /\ by_category = EmptyMap
    /\ HistoryIdle
    /\ ParserIdle
    /\ ServiceIdle

\* for commit in commits { ... }
AnalyzeStep ==
    /\ pc = "analyze"
    /\ i <= Len(commits)
    /\ by_category' =
         EntryOrDefaultPush(by_category, categorize(commits[i]), commits[i])
    /\ i' = i + 1
    /\ UNCHANGED <<pc, commits, historyVars, parserVars, serviceVars>>

\* CategorizedCommits { by_category }
AnalyzeReturn ==
    /\ pc = "analyze"
    /\ i > Len(commits)
    /\ pc' = "done"
    /\ UNCHANGED <<analyzerVars, historyVars, parserVars, serviceVars>>

NextAnalyze == AnalyzeStep \/ AnalyzeReturn

SpecAnalyze == InitAnalyze /\ [][NextAnalyze]_vars

(***************************************************************************)
(* GitRepo: references, tags and the commit graph                          *)
(*                                                                         *)
(* An Oid is a number 1..n; repo.parents[c] are the parents of commit c    *)
(* (first parent first), repo.time[c] its commit time, repo.tree[c] the    *)
(* content of the scoped path in its tree (0: the path is absent),         *)
(* repo.tags the tag listing [name, target] in the order tag_names yields  *)
(* it (a target that is no Oid cannot be peeled to a commit), repo.head    *)
(* the commit HEAD points at, repo.fails[c] the call of the loop of        *)
(* history that returns an error when the walk is at commit c ("none":     *)
(* every call succeeds).                                                   *)
(***************************************************************************)
Oids(r) == DOMAIN r.parents

\* the commits reachable from c, c included
RECURSIVE Reachable(_, _)
Reachable(r, c) ==
    {c} \cup UNION {Reachable(r, r.parents[c][k]) : k \in DOMAIN r.parents[c]}

DigitChar == <<"1", "2", "3", "4", "5", "6", "7", "8", "9">>

\* Oid::to_string: the hexadecimal name of a commit
Hex(c) == <<"0", "0", "0", DigitChar[c]>>

\* position of the last '/' of s
RFindSlash(s) == CHOOSE k \in 1..Len(s) : s[k] = "/" /\ \A j \in (k + 1)..Len(s) : s[j] # "/"

\* str::strip_prefix('v').unwrap_or(s)
StripV(s) == IF Len(s) >= 1 /\ s[1] = "v" THEN SubSeq(s, 2, Len(s)) ELSE s

\* a numeric identifier of a version starts at p: its length, or 0 when there
\* is none (no digit, or a leading zero)
NumericLen(s, p) ==
    LET n == RunLen(s, p, Digit)
    IN  IF n >= 2 /\ s[p] = "0" THEN 0 ELSE n

\* semver::Version::parse(s).is_ok(), for versions major.minor.patch with an
\* optional -pre or +build identifier
VersionParse(s) ==
    LET a == NumericLen(s, 1)
        b == NumericLen(s, a + 2)
        c == NumericLen(s, a + b + 3)
        e == a + b + c + 3
        ident == RunLen(s, e + 1, Letter \cup Digit \cup {"-"})
    IN  /\ a >= 1 /\ Len(s) > a /\ s[a + 1] = "."
        /\ b >= 1 /\ Len(s) > a + b + 1 /\ s[a + b + 2] = "."
        /\ c >= 1
        /\ \/ Len(s) = e - 1
           \/ /\ Len(s) >= e + 1
              /\ s[e] \in {"-", "+"}
              /\ ident >= 1
              /\ Len(s) = e + ident

\* fn detect_prefix_from_from_ref: Option<String>
detect_prefix_from_from_ref(from_ref) ==
    IF from_ref = None THEN None
    ELSE LET ref_str == from_ref[1]
         IN  IF ~Contains(ref_str, <<"/">>) THEN None
             ELSE LET slash_pos == RFindSlash(ref_str)
                      potential_prefix == SubSeq(ref_str, 1, slash_pos - 1)
                      version_part == SubSeq(ref_str, slash_pos + 1, Len(ref_str))
                  IN  IF VersionParse(StripV(version_part))
                      THEN Some(potential_prefix) ELSE None

\* tag_matches_prefix without the test of the prefix
tag_matches_any_prefix(tag_name, prefix_filter) == Len(tag_name) >= 1

\* fn tag_matches_prefix
tag_matches_prefix(tag_name, prefix_filter) ==
    IF prefix_filter = None THEN ~Contains(tag_name, <<"/">>)
    ELSE StartsWith(tag_name, prefix_filter[1] \o <<"/">>)

\* is_semver_tag without the test of the version
is_semver_tag_any(tag_name) == Len(tag_name) >= 1

\* fn is_semver_tag
is_semver_tag(tag_name) ==
    LET version_part ==
            IF Contains(tag_name, <<"/">>)
            THEN SubSeq(tag_name, RFindSlash(tag_name) + 1, Len(tag_name))
            ELSE tag_name
    IN  VersionParse(StripV(version_part))

\* the tags of a listing that load_tags_sorted pushes: prefix, semantic
\* version, and a reference that peels to a commit
RECURSIVE PushedTags(_, _, _)
PushedTags(r, listing, prefix_filter) ==
    IF listing = <<>> THEN <<>>
    ELSE LET t == Head(listing)
             rest == PushedTags(r, Tail(listing), prefix_filter)
         IN  IF /\ tag_matches_prefix(t.name, prefix_filter)
                /\ is_semver_tag(t.name)
                /\ t.target \in Oids(r)
             THEN <<[name |-> t.name, oid |-> t.target]>> \o rest
             ELSE rest

\* the listing order instead of the order of the commit times
SortUnsorted(r, pushed) == pushed

\* an ascending sort that is then reversed: newest commit first, but tags of
\* equal time against the order of the listing
RECURSIVE SortAscendingReversed(_, _)
SortAscendingReversed(r, pushed) ==
    IF pushed = <<>> THEN <<>>
    ELSE LET n == Len(pushed)
             x == pushed[n]
             sorted == SortAscendingReversed(r, SubSeq(pushed, 1, n - 1))
             k == Cardinality({j \in 1..(n - 1) : r.time[sorted[j].oid] > r.time[x.oid]})
         IN  SubSeq(sorted, 1, k) \o <<x>> \o SubSeq(sorted, k + 1, n - 1)

\* tags.sort_by(|a, b| b.2.cmp(&a.2)): a stable sort, newest commit first
RECURSIVE SortByTimeDesc(_, _)
SortByTimeDesc(r, pushed) ==
    IF pushed = <<>> THEN <<>>
    ELSE LET n == Len(pushed)
             x == pushed[n]
             sorted == SortByTimeDesc(r, SubSeq(pushed, 1, n - 1))
             \* x, the last of the listing, goes behind every tag at least as new
             k == Cardinality({j \in 1..(n - 1) : r.time[sorted[j].oid] >= r.time[x.oid]})
         IN  SubSeq(sorted, 1, k) \o <<x>> \o SubSeq(sorted, k + 1, n - 1)

\* fn load_tags_sorted
load_tags_sorted(r, prefix_filter) ==
    SortByTimeDesc(r, PushedTags(r, r.tags, prefix_filter))

\* an index that keeps the first tag of a commit in place of the last
tag_index_first(catalog) ==
    [c \in {catalog[k].oid : k \in DOMAIN catalog} |->
        CHOOSE k \in DOMAIN catalog :
            /\ catalog[k].oid = c
            /\ \A j \in DOMAIN catalog : catalog[j].oid = c => k <= j]

\* tag_index: HashMap<Oid, usize>, collected in catalog order, so that a
\* later tag of the same commit replaces an earlier one
tag_index(catalog) ==
    [c \in {catalog[k].oid : k \in DOMAIN catalog} |->
        CHOOSE k \in DOMAIN catalog :
            /\ catalog[k].oid = c
            /\ \A j \in DOMAIN catalog : catalog[j].oid = c => j <= k]

\* repo.revparse_single(ref)?.peel_to_commit()?.id(): a commit name or a tag
\* name; None when the reference cannot be resolved to a commit
revparse_single(r, ref) ==
    IF \E c \in Oids(r) : Hex(c) = ref
    THEN Some(CHOOSE c \in Oids(r) : Hex(c) = ref)
    ELSE IF \E k \in DOMAIN r.tags : r.tags[k].name = ref /\ r.tags[k].target \in Oids(r)
         THEN Some(r.tags[CHOOSE k \in DOMAIN r.tags : r.tags[k].name = ref].target)
         ELSE None

\* The orders in which a revwalk sorted TOPOLOGICAL | TIME can yield the set
\* S of commits: a commit is yielded once all its children in S are, and of
\* the commits that are ready the newest comes first; the order among ready
\* commits of equal time is the walker's choice.
RECURSIVE TopoTimeOrders(_, _)
TopoTimeOrders(r, S) ==
    IF S = {} THEN {<<>>}
    ELSE LET ready == {c \in S :
                        ~\E d \in S : \E k \in DOMAIN r.parents[d] : r.parents[d][k] = c}
             newest == {c \in ready : \A d \in ready : r.time[c] >= r.time[d]}
         IN  UNION {{<<c>> \o rest : rest \in TopoTimeOrders(r, S \ {c})} : c \in newest}

\* a walk that hides the ancestors of `hide` but not `hide` itself
RevwalkHideAncestors(r, push, hide) ==
    TopoTimeOrders(r,
        Reachable(r, push)
            \ (IF hide = None THEN {} ELSE Reachable(r, hide[1]) \ {hide[1]}))

\* a walk that hides the commits that are not newer than `hide`
RevwalkNewerThan(r, push, hide) ==
    TopoTimeOrders(r,
        {c \in Reachable(r, push) : hide = None \/ r.time[c] > r.time[hide[1]]})

\* revwalk.push(push); revwalk.hide(hide): what the walk can yield
Revwalk(r, push, hide) ==
    TopoTimeOrders(r,
        Reachable(r, push) \ (IF hide = None THEN {} ELSE Reachable(r, hide[1])))

\* the first Oid of a walk that is a key of the index
FirstTagged(order, index) ==
    IF \E k \in DOMAIN order : order[k] \in DOMAIN index
    THEN Some(order[CHOOSE k \in DOMAIN order :
                        /\ order[k] \in DOMAIN index
                        /\ \A j \in 1..(k - 1) : order[j] \notin DOMAIN index])
    ELSE None

\* the last Oid of a walk that is a key of the index
find_farthest_tag(r, oid, index) ==
    {IF \E k \in DOMAIN order : order[k] \in DOMAIN index
     THEN Some(order[CHOOSE k \in DOMAIN order :
                        /\ order[k] \in DOMAIN index
                        /\ \A j \in (k + 1)..Len(order) : order[j] \notin DOMAIN index])
     ELSE None : order \in Revwalk(r, oid, None)}

\* fn find_closest_tag: the results it can return, one for each order the
\* walk can take
find_closest_tag(r, oid, index) ==
    {FirstTagged(order, index) : order \in Revwalk(r, oid, None)}

\* the oldest tag in place of the newest
OldestTag(catalog) == catalog[Len(catalog)]

\* &tags[0]
NewestTag(catalog) == catalog[1]

\* the ancestry walk consulted before the index: the nearest tagged commit
\* below `oid` when there is one, the index lookup otherwise
InferToWalkFirst(r, catalog, oid) ==
    LET index == tag_index(catalog)
        below == [c \in DOMAIN index \ {oid} |-> index[c]]
        found == find_closest_tag(r, oid, below)
    IN  IF catalog # <<>> /\ found # {None}
        THEN found
        ELSE IF oid \in DOMAIN index /\ index[oid] + 1 <= Len(catalog)
             THEN {Some(catalog[index[oid] + 1].oid)}
             ELSE {None}

\* the last entry of the catalog falling through to the head rule and the
\* ancestry walk
InferToFallThrough(r, catalog, oid) ==
    LET index == tag_index(catalog)
    IN  IF oid \in DOMAIN index /\ index[oid] + 1 <= Len(catalog)
        THEN {Some(catalog[index[oid] + 1].oid)}
        ELSE IF catalog # <<>>
             THEN IF oid = r.head
                  THEN {Some(NewestTag(catalog).oid)}
                  ELSE find_closest_tag(r, oid, index)
             ELSE {None}

\* the `None =>` arm of the match on `to` in history: the values to_oid can
\* take when no `to` is given
InferTo(r, catalog, oid) ==
    LET index == tag_index(catalog)
    IN  IF oid \in DOMAIN index
        THEN IF index[oid] + 1 <= Len(catalog)
             THEN {Some(catalog[index[oid] + 1].oid)}
             ELSE {None}
        ELSE IF catalog # <<>>
             THEN IF oid = r.head
                  THEN {Some(NewestTag(catalog).oid)}
                  ELSE find_closest_tag(r, oid, index)
             ELSE {None}

\* the path exists in the commit's tree, whatever the parent's tree holds
commit_has_path(r, c) == r.tree[c] # 0

\* fn commit_touches_path
commit_touches_path(r, c) ==
    IF Len(r.parents[c]) = 0
    THEN r.tree[c] # 0
    ELSE r.tree[c] # r.tree[r.parents[c][1]]

(***************************************************************************)
(* Inputs of history                                                       *)
(***************************************************************************)
\* commit graphs: a line, a fork, a merge of two roots, a merge of a commit
\* with its own parent, a line beside an unrelated root
Graphs ==
    {<< <<>>, <<1>>, <<2>> >>,
     << <<>>, <<1>>, <<1>> >>,
     << <<>>, <<>>, <<1, 2>> >>,
     << <<>>, <<1>>, <<2, 1>> >>,
     << <<>>, <<1>>, <<>> >>}

\* tag names, in the order the tag listing yields them
TagNames ==
    << <<"2", ".", "0", ".", "0">>,
       <<"r", "a", "n", "d", "o", "m", "-", "t", "a", "g">>,
       <<"v", "1", ".", "0", ".", "0">> >>

\* a reference that names nothing
BogusRef == <<"n", "o", "p", "e">>

\* the tag listings of at most n tags named names[1..k], with targets in T
RECURSIVE Listings(_, _, _, _)
Listings(names, k, n, T) ==
    IF k = 0 THEN {<<>>}
    ELSE LET shorter == Listings(names, k - 1, n, T)
         IN  shorter \cup
             {Append(l, [name |-> names[k], target |-> c]) :
                l \in {q \in shorter : Len(q) < n}, c \in T}

AnalyzeIdle ==
    /\ commits = <<>>
    /\ i = 1
    /\ by_category = EmptyMap

InitHistory ==
    /\ pc = "history"
    /\ \E parents \in Graphs :
        \E time \in [DOMAIN parents -> 1..MaxTime],
           listing \in Listings(TagNames, Len(TagNames), MaxTags, DOMAIN parents),
           head \in DOMAIN parents :
            LET names == {listing[k].name : k \in DOMAIN listing}
                hexes == {Hex(c) : c \in DOMAIN parents}
            IN  /\ repo = [parents |-> parents, time |-> time,
                           tree |-> [c \in DOMAIN parents |-> 0],
                           tags |-> listing, head |-> head,
                           fails |-> [c \in DOMAIN parents |-> "none"]]
                /\ \/ /\ from \in {None} \cup {Some(x) : x \in names \cup hexes \cup {BogusRef}}
                      /\ to = None
                   \/ /\ Len(listing) <= 1
                      /\ from \in {None} \cup {Some(x) : x \in names \cup hexes}
                      /\ to \in {Some(x) : x \in hexes \cup {BogusRef}}
    /\ path_filter = None
    /\ tags = <<>>
    /\ from_oid = 0
    /\ to_oid = None
    /\ revwalk = <<>>
    /\ hist_commits = <<>>
    /\ AnalyzeIdle
    /\ ParserIdle
    /\ ServiceIdle

\* tag names of a monorepo, in the order the tag listing yields them: two
\* namespaces, a nested namespace, a global tag, names that are no version
MonoTagNames ==
    << <<"u", "i", "/", "v", "1", ".", "0", ".", "0">>,
       <<"u", "i", "/", "x", "/", "v", "1", ".", "0", ".", "0">>,
       <<"s", "e", "a", "r", "c", "h", "/", "v", "1", ".", "0", ".", "0">>,
       <<"u", "i", "/", "2", ".", "0", ".", "0">>,
       <<"v", "1", ".", "0", ".", "0">>,
       <<"r", "a", "n", "d", "o", "m", "-", "t", "a", "g">>,
       <<"u", "i", "/", "n", "e", "x", "t">> >>

\* commit times of three commits: in the order of the Oids, against it, equal
MonoTimes == {<<1, 2, 3>>, <<3, 2, 1>>, <<1, 1, 1>>}

InitMonorepo ==
    /\ pc = "history"
    /\ \E parents \in Graphs :
        \E time \in MonoTimes,
           listing \in Listings(MonoTagNames, Len(MonoTagNames), MaxTags,
                                DOMAIN parents) :
            /\ repo = [parents |-> parents, time |-> time,
                       tree |-> [c \in DOMAIN parents |-> 0],
                       tags |-> listing, head |-> Len(parents),
                       fails |-> [c \in DOMAIN parents |-> "none"]]
            /\ from \in {None}
                     \cup {Some(MonoTagNames[k]) : k \in DOMAIN MonoTagNames}
                     \cup {Some(Hex(c)) : c \in DOMAIN parents}
    /\ to = None
    /\ path_filter = None
    /\ tags = <<>>
    /\ from_oid = 0
    /\ to_oid = None
    /\ revwalk = <<>>
    /\ hist_commits = <<>>
    /\ AnalyzeIdle
    /\ ParserIdle
    /\ ServiceIdle

\* tag names of a repository some of whose tags name no commit, in the order
\* the tag listing yields them
CatalogTagNames ==
    << <<"u", "i", "/", "v", "1", ".", "0", ".", "0">>, <<"v", "1", ".", "0", ".", "0">>, <<"u", "i", "/", "2", ".", "0", ".", "0">>, <<"2", ".", "0", ".", "0">>, <<"r", "a", "n", "d", "o", "m", "-", "t", "a", "g">> >>

\* the target of a tag that cannot be dereferenced to a commit
NoCommit == 0

\* history in a repository whose tags may name something that is no commit
InitCatalog ==
    /\ pc = "history"
    /\ \E parents \in Graphs :
        \E time \in MonoTimes,
           listing \in Listings(CatalogTagNames, Len(CatalogTagNames), MaxTags,
                                DOMAIN parents \cup {NoCommit}) :
            /\ repo = [parents |-> parents, time |-> time,
                       tree |-> [c \in DOMAIN parents |-> 0],
                       tags |-> listing, head |-> Len(parents),
                       fails |-> [c \in DOMAIN parents |-> "none"]]
            /\ from \in {None, Some(CatalogTagNames[1]), Some(CatalogTagNames[2])}
                     \cup {Some(Hex(c)) : c \in DOMAIN parents}
    /\ to = None
    /\ path_filter = None
    /\ tags = <<>>
    /\ from_oid = 0
    /\ to_oid = None
    /\ revwalk = <<>>
    /\ hist_commits = <<>>
    /\ AnalyzeIdle
    /\ ParserIdle
    /\ ServiceIdle

\* GitRepo.path_filter of a repository opened in a subdirectory
ScopedPath == <<"s", "e", "a", "r", "c", "h">>

\* the tag names of the repositories with a path scope
WalkTagNames == << <<"v", "1", ".", "0", ".", "0">>, <<"2", ".", "0", ".", "0">> >>

\* the calls of the loop body that can fail
LoopCalls == {"walk", "find_commit", "tree"}

\* history with and without a path scope; either every call of the loop
\* succeeds and the trees vary, or one call fails at one commit
InitWalk ==
    /\ pc = "history"
    /\ \E parents \in Graphs :
        \E time \in MonoTimes :
            LET hexes == {Hex(c) : c \in DOMAIN parents}
                ok == [c \in DOMAIN parents |-> "none"]
            IN  \/ \E tree \in [DOMAIN parents -> 0..MaxTree],
                      listing \in Listings(WalkTagNames, Len(WalkTagNames),
                                           MaxTags, DOMAIN parents) :
                        LET names == {listing[k].name : k \in DOMAIN listing}
                        IN  /\ repo = [parents |-> parents, time |-> time,
                                       tree |-> tree, tags |-> listing,
                                       head |-> Len(parents), fails |-> ok]
                            /\ from \in {None} \cup {Some(x) : x \in names \cup hexes}
                            /\ \/ to = None
                               \/ /\ Len(listing) <= 1
                                  /\ to \in {Some(x) : x \in hexes \cup {BogusRef}}
                \/ \E c \in DOMAIN parents, call \in LoopCalls :
                        /\ repo = [parents |-> parents, time |-> time,
                                   tree |-> [d \in DOMAIN parents |-> d % 2],
                                   tags |-> <<>>, head |-> Len(parents),
                                   fails |-> [ok EXCEPT ![c] = call]]
                        /\ from \in {None} \cup {Some(x) : x \in hexes}
                        /\ to \in {None} \cup {Some(x) : x \in hexes}
    /\ path_filter \in {None, Some(ScopedPath)}
    /\ tags = <<>>
    /\ from_oid = 0
    /\ to_oid = None
    /\ revwalk = <<>>
    /\ hist_commits = <<>>
    /\ AnalyzeIdle
    /\ ParserIdle
    /\ ServiceIdle

(***************************************************************************)
(* GitRepo::history                                                        *)
(***************************************************************************)
\* the Oid `from` resolves to, None when it cannot be resolved
ResolveFrom(r, from_ref) ==
    IF from_ref = None THEN Some(r.head) ELSE revparse_single(r, from_ref[1])

\* the values to_oid can take; no value when `to` cannot be resolved
ResolveTo(r, catalog, oid, to_ref) ==
    IF to_ref # None
    THEN IF revparse_single(r, to_ref[1]) = None
         THEN {}
         ELSE {revparse_single(r, to_ref[1])}
    ELSE InferTo(r, catalog, oid)

\* history up to the creation of the revision walk
HistoryResolve ==
    /\ pc = "history"
    /\ LET prefix_filter == detect_prefix_from_from_ref(from)
           catalog == load_tags_sorted(repo, prefix_filter)
           f == ResolveFrom(repo, from)
       IN  /\ f # None
           /\ tags' = catalog
           /\ from_oid' = f[1]
           /\ \E t \in ResolveTo(repo, catalog, f[1], to) :
                /\ to_oid' = t
                /\ \E order \in Revwalk(repo, f[1], t) : revwalk' = order
    /\ hist_commits' = <<>>
    /\ pc' = "walk"
    /\ UNCHANGED <<repo, from, to, path_filter, analyzerVars, parserVars, serviceVars>>

\* revparse_single(from)? or revparse_single(to)? returns the error
HistoryResolveErr ==
    /\ pc = "history"
    /\ LET f == ResolveFrom(repo, from)
       IN  \/ f = None
           \/ /\ f # None
              /\ to # None
              /\ revparse_single(repo, to[1]) = None
    /\ pc' = "error"
    /\ UNCHANGED <<repo, from, to, path_filter, tags, from_oid, to_oid, revwalk,
                   hist_commits, analyzerVars, parserVars, serviceVars>>

\* the `?` of the loop body: only the call that reads the trees
LoopFailsOnTreeOnly(r, filter, oid) ==
    r.fails[oid] = "tree" /\ filter # None

\* the `?` of the loop body: `oid?`, find_commit(..)? and, with a path
\* scope, commit_touches_path(..)?
LoopFails(r, filter, oid) ==
    \/ r.fails[oid] \in {"walk", "find_commit"}
    \/ r.fails[oid] = "tree" /\ filter # None

\* for oid in revwalk { ... }
WalkStep ==
    /\ pc = "walk"
    /\ revwalk # <<>>
    /\ ~LoopFails(repo, path_filter, Head(revwalk))
    /\ LET oid == Head(revwalk)
       IN  hist_commits' =
             IF path_filter # None /\ ~commit_touches_path(repo, oid)
             THEN hist_commits
             ELSE Append(hist_commits, oid)
    /\ revwalk' = Tail(revwalk)
    /\ UNCHANGED <<pc, repo, from, to, path_filter, tags, from_oid, to_oid,
                   analyzerVars, parserVars, serviceVars>>

\* Ok(commits)
HistoryReturn ==
    /\ pc = "walk"
    /\ revwalk = <<>>
    /\ pc' = "done"
    /\ UNCHANGED <<historyVars, analyzerVars, parserVars, serviceVars>>

\* a `?` of the loop body returns the error; the commits collected so far
\* are dropped with the vector
WalkErr ==
    /\ pc = "walk"
    /\ revwalk # <<>>
    /\ LoopFails(repo, path_filter, Head(revwalk))
    /\ hist_commits' = <<>>
    /\ pc' = "error"
    /\ UNCHANGED <<repo, from, to, path_filter, tags, from_oid, to_oid, revwalk,
                   analyzerVars, parserVars, serviceVars>>

NextHistory == HistoryResolve \/ HistoryResolveErr \/ WalkStep \/ HistoryReturn

SpecHistory == InitHistory /\ [][NextHistory]_vars

NextWalk ==
    HistoryResolve \/ HistoryResolveErr \/ WalkStep \/ WalkErr \/ HistoryReturn

\* history with a path scope and with calls that fail during the walk
SpecWalk == InitWalk /\ [][NextWalk]_vars

\* history in a monorepo: tags of several namespaces, `to` never given
SpecMonorepo == InitMonorepo /\ [][NextHistory]_vars

SpecCatalog == InitCatalog /\ [][NextHistory]_vars

\* the release tags of a repository with three releases, in the order the
\* tag listing yields them
ReleaseNames ==
    << <<"v", "1", ".", "0", ".", "0">>,
       <<"v", "2", ".", "0", ".", "0">>,
       <<"v", "3", ".", "0", ".", "0">> >>

\* history without `to`: up to three releases on any commits, any head,
\* `from` absent, a commit or a release name
InitInfer ==
    /\ pc = "history"
    /\ \E parents \in Graphs :
        \E time \in [DOMAIN parents -> 1..MaxTime],
           listing \in Listings(ReleaseNames, Len(ReleaseNames), MaxReleases,
                                DOMAIN parents),
           head \in DOMAIN parents :
            /\ repo = [parents |-> parents, time |-> time,
                       tree |-> [c \in DOMAIN parents |-> 0],
                       tags |-> listing, head |-> head,
                       fails |-> [c \in DOMAIN parents |-> "none"]]
            /\ from \in {None, Some(ReleaseNames[3])}
                     \cup {Some(Hex(c)) : c \in DOMAIN parents}
    /\ to = None
    /\ path_filter = None
    /\ tags = <<>>
    /\ from_oid = 0
    /\ to_oid = None
    /\ revwalk = <<>>
    /\ hist_commits = <<>>
    /\ AnalyzeIdle
    /\ ParserIdle
    /\ ServiceIdle

SpecInfer == InitInfer /\ [][NextHistory]_vars

\* history(from_ref, None) of a repository without a path scope, as a
\* function: the sets of commits it can return (none when it fails)
history_commits(r, from_ref) ==
    LET catalog == load_tags_sorted(r, detect_prefix_from_from_ref(from_ref))
        f == ResolveFrom(r, from_ref)
    IN  IF f = None THEN {}
        ELSE {Reachable(r, f[1]) \ (IF t = None THEN {} ELSE Reachable(r, t[1])) :
                t \in ResolveTo(r, catalog, f[1], None)}

(***************************************************************************)
(* Commit::from_git2_commit: the message parser                            *)
(***************************************************************************)
\* the characters str::trim removes
TrimChars == Whitespace \cup {"\n", "\r"}

\* line.trim().is_empty()
IsBlank(line) == \A k \in 1..Len(line) : line[k] \in TrimChars

\* str::trim
Trim(s) ==
    LET keep == {k \in 1..Len(s) : s[k] \notin TrimChars}
    IN  IF keep = {} THEN <<>>
        ELSE SubSeq(s, CHOOSE k \in keep : \A j \in keep : k <= j,
                       CHOOSE k \in keep : \A j \in keep : k >= j)

\* [&str]::join("\n")
RECURSIVE Join(_)
Join(lines) ==
    IF lines = <<>> THEN <<>>
    ELSE IF Len(lines) = 1 THEN lines[1]
    ELSE lines[1] \o <<"\n">> \o Join(Tail(lines))

\* the pieces of s between its newlines
RECURSIVE SplitNewline(_)
SplitNewline(s) ==
    IF \E k \in 1..Len(s) : s[k] = "\n"
    THEN LET n == CHOOSE k \in 1..Len(s) :
                    s[k] = "\n" /\ \A j \in 1..(k - 1) : s[j] # "\n"
         IN  <<SubSeq(s, 1, n - 1)>> \o SplitNewline(SubSeq(s, n + 1, Len(s)))
    ELSE <<s>>

\* str::lines: the text is split at "\n" or "\r\n", a final empty line is
\* not a line
Lines(s) ==
    LET pieces == SplitNewline(s)
        n == Len(pieces)
        kept == IF pieces[n] = <<>> THEN SubSeq(pieces, 1, n - 1) ELSE pieces
    IN  [k \in 1..Len(kept) |->
            IF k < n /\ kept[k] # <<>> /\ kept[k][Len(kept[k])] = "\r"
            THEN SubSeq(kept[k], 1, Len(kept[k]) - 1)
            ELSE kept[k]]

\* remaining.iter().position(..): the first blank line in place of the last
position_blank(remaining) ==
    IF \E k \in DOMAIN remaining : IsBlank(remaining[k])
    THEN Some(CHOOSE k \in DOMAIN remaining :
                /\ IsBlank(remaining[k])
                /\ \A j \in DOMAIN remaining : IsBlank(remaining[j]) => j >= k)
    ELSE None

\* remaining.iter().rposition(|line| line.trim().is_empty())
rposition_blank(remaining) ==
    IF \E k \in DOMAIN remaining : IsBlank(remaining[k])
    THEN Some(CHOOSE k \in DOMAIN remaining :
                /\ IsBlank(remaining[k])
                /\ \A j \in DOMAIN remaining : IsBlank(remaining[j]) => j <= k)
    ELSE None

\* if text.is_empty() { None } else { Some(text) }
NonEmpty(text) == IF text = <<>> THEN None ELSE Some(text)

\* fn from_git2_commit: the fields taken from the message
from_git2_commit(msg) ==
    LET lines == Lines(msg)
        first_line == IF lines = <<>> THEN <<>> ELSE lines[1]
    IN  IF Len(lines) > 1
        THEN LET remaining == Tail(lines)
                 last_blank_idx == rposition_blank(remaining)
             IN  IF last_blank_idx # None
                 THEN LET body_lines == SubSeq(remaining, 1, last_blank_idx[1] - 1)
                          footer_lines == SubSeq(remaining, last_blank_idx[1] + 1,
                                                 Len(remaining))
                      IN  [first_line |-> first_line,
                           body |-> NonEmpty(Trim(Join(body_lines))),
                           footer |-> NonEmpty(Trim(Join(footer_lines)))]
                 ELSE [first_line |-> first_line,
                       body |-> NonEmpty(Trim(Join(remaining))),
                       footer |-> None]
        ELSE [first_line |-> first_line, body |-> None, footer |-> None]

(***************************************************************************)
(* Inputs of the parser: messages written from parts.  A message is the    *)
(* first line; then, if there are paragraphs, a blank line and the         *)
(* paragraphs with `gap` blank lines between two of them; then, if there   *)
(* are trailer lines, `pre` blank lines and the trailer lines with `tgap`  *)
(* blank lines between two of them; then `tail` newlines.                  *)
(***************************************************************************)
\* a line that closes an issue
IssueLine == <<"c", "l", "o", "s", "e", "s", " ", "#", "7">>

\* paragraphs, each a sequence of lines: one line, two lines (the second
\* with a colon), a line that starts with whitespace, a line that ends with
\* it, a line that closes an issue
ParaPool ==
    {<< <<"a">> >>,
     << <<"b">>, <<"c", ":", " ", "d">> >>,
     << <<" ", "e">> >>,
     << <<"f", " ">> >>,
     << IssueLine >>}

TrailerLines ==
    << <<"S", "i", "g", "n", "e", "d", "-", "o", "f", "f", "-", "b", "y", ":", " ", "A">>,
       <<"C", "o", "-", "a", "u", "t", "h", "o", "r", "e", "d", "-", "b", "y", ":", " ", "B">> >>

\* no trailer, one, two
TrailerBlocks == {SubSeq(TrailerLines, 1, n) : n \in 0..Len(TrailerLines)}

MessageParts ==
    [first : {S_feat \o <<":", " ", "x">>},
     paras : SeqsUpTo(ParaPool, MaxParas),
     gap : 1..MaxBlank,
     pre : {1, 2},
     trailers : TrailerBlocks,
     tgap : {0, 1},
     tail : {0, 1, 2}]

\* n blank lines
Blanks(n) == [k \in 1..n |-> <<>>]

\* the lines of the groups, n blank lines between two groups
RECURSIVE Spread(_, _)
Spread(groups, n) ==
    IF groups = <<>> THEN <<>>
    ELSE IF Len(groups) = 1 THEN groups[1]
    ELSE groups[1] \o Blanks(n) \o Spread(Tail(groups), n)

\* the message written from the parts
Render(pt) ==
    LET body == IF pt.paras = <<>> THEN <<>>
                ELSE Blanks(1) \o Spread(pt.paras, pt.gap)
        block == IF pt.trailers = <<>> THEN <<>>
                 ELSE Blanks(pt.pre)
                      \o Spread([k \in DOMAIN pt.trailers |-> <<pt.trailers[k]>>],
                                pt.tgap)
    IN  Join(<<pt.first>> \o body \o block) \o [k \in 1..pt.tail |-> "\n"]

InitParse ==
    /\ pc = "parse"
    /\ parts \in MessageParts
    /\ message = Render(parts)
    /\ parsed_commit = None
    /\ AnalyzeIdle
    /\ HistoryIdle
    /\ ServiceIdle

\* Commit::from_git2_commit(&git_commit)
ParseMessage ==
    /\ pc = "parse"
    /\ parsed_commit' = Some(from_git2_commit(message))
    /\ pc' = "done"
    /\ UNCHANGED <<parts, message, analyzerVars, historyVars, serviceVars>>

NextParse == ParseMessage

SpecParse == InitParse /\ [][NextParse]_vars

(***************************************************************************)
(* The contributor resolvers (src/src/contributor/github.rs, gitlab.rs).   *)
(* `resolver` is the GitHubResolver or GitLabResolver: its kind and its    *)
(* cache, HashMap<String, Option<Contributor>>.  The platform answers each *)
(* request as it pleases (a login or nothing, the details of a user or     *)
(* nothing: an error, a 404 and an unparsable body all end in None).       *)
(* `resolve_log` records, for each call of resolve, its arguments, whether *)
(* it asked the commit API and the user API, and what it returned.         *)
(***************************************************************************)
\* str::strip_suffix
StripSuffix(s, suffix) ==
    IF /\ Len(suffix) <= Len(s)
       /\ SubSeq(s, Len(s) - Len(suffix) + 1, Len(s)) = suffix
    THEN Some(SubSeq(s, 1, Len(s) - Len(suffix)))
    ELSE None

\* str::split(ch), collected
RECURSIVE SplitOn(_, _)
SplitOn(s, ch) ==
    IF \E k \in 1..Len(s) : s[k] = ch
    THEN LET k == CHOOSE j \in 1..Len(s) :
                    s[j] = ch /\ \A h \in 1..(j - 1) : s[h] # ch
         IN  <<SubSeq(s, 1, k - 1)>> \o SplitOn(SubSeq(s, k + 1, Len(s)), ch)
    ELSE <<s>>

\* Iterator::nth(n)
Nth(pieces, n) == IF n + 1 <= Len(pieces) THEN Some(pieces[n + 1]) ELSE None

\* Option::or_else
OrElse(first, second) == IF first # None THEN first ELSE second

E_ai == <<"n", "o", "r", "e", "p", "l", "y", "@", "a", "n", "t", "h", "r", "o", "p", "i", "c", ".", "c", "o", "m">>
E_github_noreply == <<"1", "+", "p", "u", "c", "k", "@", "u", "s", "e", "r", "s", ".", "n", "o", "r", "e", "p", "l", "y", ".", "g", "i", "t", "h", "u", "b", ".", "c", "o", "m">>
E_github_plain == <<"p", "u", "c", "k", "@", "u", "s", "e", "r", "s", ".", "n", "o", "r", "e", "p", "l", "y", ".", "g", "i", "t", "h", "u", "b", ".", "c", "o", "m">>
E_gitlab_noreply == <<"1", "-", "p", "u", "c", "k", "@", "u", "s", "e", "r", "s", ".", "n", "o", "r", "e", "p", "l", "y", ".", "g", "i", "t", "l", "a", "b", ".", "c", "o", "m">>
E_gitlab_short == <<"p", "u", "c", "k", "@", "n", "o", "r", "e", "p", "l", "y", ".", "g", "i", "t", "l", "a", "b", ".", "c", "o", "m">>
E_plain == <<"i", "a", "g", "o", "@", "v", "e", "n", "i", "c", "e", ".", "i", "t">>

\* the emails a resolver is asked about: to a resolver the noreply addresses
\* of the other platform are plain addresses
Emails(kind) ==
    {E_ai, E_plain}
        \cup (IF kind = "github" THEN {E_github_noreply, E_github_plain}
              ELSE {E_gitlab_noreply, E_gitlab_short})

\* commit hashes and the login the platform knows as the author of each
CommitHashes == {<<"5", "9", "9", "e", "1", "3", "c">>, <<"1", "2", "7", "f", "c", "a", "5">>}
AuthorLogin(commit_hash) ==
    IF commit_hash = <<"5", "9", "9", "e", "1", "3", "c">> THEN <<"h", "a", "m", "l", "e", "t", "[", "b", "o", "t", "]">> ELSE <<"i", "a", "g", "o">>

AvatarUrl == <<"h", "t", "t", "p", "s", ":", "/", "/", "a", "v", "a", "t", "a", "r", "s", "/", "u", "/", "1">>

\* PlatformResolver::resolve_ai_contributor
resolve_ai_contributor(email) ==
    IF email = <<"n", "o", "r", "e", "p", "l", "y", "@", "a", "n", "t", "h", "r", "o", "p", "i", "c", ".", "c", "o", "m">> THEN Some(<<"c", "l", "a", "u", "d", "e">>) ELSE None

\* GitHubResolver::extract_username_from_noreply
github_extract_username_from_noreply(email) ==
    LET prefix == StripSuffix(email, <<"@", "u", "s", "e", "r", "s", ".", "n", "o", "r", "e", "p", "l", "y", ".", "g", "i", "t", "h", "u", "b", ".", "c", "o", "m">>)
    IN  IF prefix = None THEN None ELSE Nth(SplitOn(prefix[1], "+"), 1)

\* GitLabResolver::extract_username_from_noreply
gitlab_extract_username_from_noreply(email) ==
    LET prefix == StripSuffix(email, <<"@", "u", "s", "e", "r", "s", ".", "n", "o", "r", "e", "p", "l", "y", ".", "g", "i", "t", "l", "a", "b", ".", "c", "o", "m">>)
        username == StripSuffix(email, <<"@", "n", "o", "r", "e", "p", "l", "y", ".", "g", "i", "t", "l", "a", "b", ".", "c", "o", "m">>)
    IN  IF prefix # None THEN Nth(SplitOn(prefix[1], "-"), 1)
        ELSE IF username # None THEN Some(username[1])
        ELSE None

extract_username_from_noreply(kind, email) ==
    IF kind = "github" THEN github_extract_username_from_noreply(email)
    ELSE gitlab_extract_username_from_noreply(email)

\* the platform is asked for the author of the commit before anything else
resolve_username_api_first(kind, email, login) ==
    [username |-> OrElse(login,
                         OrElse(resolve_ai_contributor(email),
                                extract_username_from_noreply(kind, email))),
     commit_api |-> TRUE]

\* resolve: the chain of or_else that yields the username; `login` is what
\* the commit API (GitHub) or the GraphQL API (GitLab) answers if asked
resolve_username(kind, email, login) ==
    LET local == OrElse(resolve_ai_contributor(email),
                        extract_username_from_noreply(kind, email))
    IN  [username |-> OrElse(local, login), commit_api |-> local = None]

\* PlatformResolver::generate_gravatar_url (the hash is not computed)
generate_gravatar_url(email) == <<"gravatar", email>>

\* the avatar when the user API gives none
FallbackAvatar(kind, email) ==
    IF kind = "github" THEN generate_gravatar_url(email) ELSE <<>>

\* only a contributor found is remembered
cache_get_found(cache, email) ==
    IF email \in DOMAIN cache /\ cache[email] # None
    THEN Some(cache[email]) ELSE None

\* self.cache.get(email)
cache_get(cache, email) ==
    IF email \in DOMAIN cache THEN Some(cache[email]) ELSE None

\* self.cache.insert(email, contributor)
cache_insert(cache, email, contributor) ==
    [e \in DOMAIN cache \cup {email} |->
        IF e = email THEN contributor ELSE cache[e]]

\* what the commit API may answer for a commit: nothing, or its author
CommitApiAnswers(commit_hash) == {None, Some(AuthorLogin(commit_hash))}

\* what the user API may answer: nothing, or the avatar and the bot flag
UserApiAnswers(username) ==
    {None, Some([avatar_url |-> AvatarUrl, is_bot |-> Contains(username, <<"[", "b", "o", "t", "]">>)])}

InitResolve ==
    /\ pc = "resolve"
    /\ \E kind \in {"github", "gitlab"} :
            resolver = [kind |-> kind, cache |-> EmptyMap]
    /\ resolve_log = <<>>
    /\ PlatformIdle
    /\ TemplateIdle
    /\ ParserIdle
    /\ AnalyzeIdle
    /\ HistoryIdle

\* PlatformResolver::resolve(commit_hash, email)
Resolve(commit_hash, email) ==
    /\ pc = "resolve"
    /\ Len(resolve_log) < MaxResolves
    /\ LET cached == cache_get(resolver.cache, email)
       IN  IF cached # None
           THEN /\ resolve_log' = Append(resolve_log,
                        [commit_hash |-> commit_hash, email |-> email,
                         commit_api |-> FALSE, user_api |-> FALSE,
                         result |-> cached[1]])
                /\ UNCHANGED resolver
           ELSE \E login \in CommitApiAnswers(commit_hash) :
                  LET found == resolve_username(resolver.kind, email, login)
                  IN  /\ found.commit_api \/ login = None
                      /\ \E details \in (IF found.username = None THEN {None}
                                         ELSE UserApiAnswers(found.username[1])) :
                           LET contributor ==
                                 IF found.username = None THEN None
                                 ELSE Some([username |-> found.username[1],
                                            avatar_url |->
                                               IF details # None
                                               THEN details[1].avatar_url
                                               ELSE FallbackAvatar(resolver.kind, email),
                                            is_bot |-> IF details # None
                                                       THEN details[1].is_bot
                                                       ELSE FALSE])
                           IN  /\ resolve_log' = Append(resolve_log,
                                     [commit_hash |-> commit_hash, email |-> email,
                                      commit_api |-> found.commit_api,
                                      user_api |-> found.username # None,
                                      result |-> contributor])
                               /\ resolver' = [resolver EXCEPT !.cache =
                                     cache_insert(@, email, contributor)]
    /\ UNCHANGED <<pc, platformVars, templateVars, analyzerVars, historyVars,
                   parserVars>>

NextResolve == \E commit_hash \in CommitHashes, email \in Emails(resolver.kind) :
                    Resolve(commit_hash, email)

SpecResolve == InitResolve /\ [][NextResolve]_vars

(***************************************************************************)
(* Platform::detect (src/src/platform.rs).  `env` is the environment of    *)
(* the process, a record of Option<String>, one field per variable read.   *)
(* A Platform is a record with the fields of its variant and `kind`.       *)
(***************************************************************************)
\* str::split_once(ch)
SplitOnce(s, ch) ==
    IF \E k \in 1..Len(s) : s[k] = ch
    THEN LET k == CHOOSE j \in 1..Len(s) :
                    s[j] = ch /\ \A h \in 1..(j - 1) : s[h] # ch
         IN  Some(<<SubSeq(s, 1, k - 1), SubSeq(s, k + 1, Len(s))>>)
    ELSE None

\* str::trim_end_matches(pattern)
RECURSIVE TrimEndMatches(_, _)
TrimEndMatches(s, pattern) ==
    LET rest == StripSuffix(s, pattern)
    IN  IF rest = None THEN s ELSE TrimEndMatches(rest[1], pattern)

\* [&str]::join(separator)
RECURSIVE JoinWith(_, _)
JoinWith(pieces, separator) ==
    IF pieces = <<>> THEN <<>>
    ELSE IF Len(pieces) = 1 THEN pieces[1]
    ELSE pieces[1] \o separator \o JoinWith(Tail(pieces), separator)

\* format!("{}/{}", a, b)
Slash(a, b) == a \o <<"/">> \o b

Unknown == [kind |-> "Unknown"]

\* Platform::extract_host_with_protocol
extract_host_with_protocol(url) ==
    IF StartsWith(url, <<"h", "t", "t", "p", "s", ":", "/", "/">>)
    THEN Some(<<<<"h", "t", "t", "p", "s">>, SplitOn(SubSeq(url, 9, Len(url)), "/")[1]>>)
    ELSE IF StartsWith(url, <<"h", "t", "t", "p", ":", "/", "/">>)
    THEN Some(<<<<"h", "t", "t", "p">>, SplitOn(SubSeq(url, 8, Len(url)), "/")[1]>>)
    ELSE None

\* Platform::infer_github_api_url
infer_github_api_url(protocol, host) ==
    IF host = <<"g", "i", "t", "h", "u", "b", ".", "c", "o", "m">> THEN <<"h", "t", "t", "p", "s", ":", "/", "/", "a", "p", "i", ".", "g", "i", "t", "h", "u", "b", ".", "c", "o", "m">>
    ELSE protocol \o <<":", "/", "/">> \o host \o <<"/", "a", "p", "i", "/", "v", "3">>

\* Platform::infer_gitlab_api_url
infer_gitlab_api_url(protocol, host) ==
    protocol \o <<":", "/", "/">> \o host \o <<"/", "a", "p", "i", "/", "v", "4">>

\* Platform::infer_gitlab_graphql_url
infer_gitlab_graphql_url(protocol, host) ==
    protocol \o <<":", "/", "/">> \o host \o <<"/", "a", "p", "i", "/", "g", "r", "a", "p", "h", "q", "l">>

\* Platform::from_ci_env, Option<Platform>
from_ci_env(e) ==
    LET gitlab ==
            IF e.GITLAB_CI # None /\ e.CI_PROJECT_URL # None
                /\ e.CI_PROJECT_PATH # None
            THEN LET url == e.CI_PROJECT_URL[1]
                     hp == extract_host_with_protocol(url)
                 IN  Some([kind |-> "GitLab",
                           url |-> url,
                           api_url |->
                              IF e.CI_API_V4_URL # None THEN e.CI_API_V4_URL[1]
                              ELSE IF hp # None
                                   THEN infer_gitlab_api_url(hp[1][1], hp[1][2])
                              ELSE TrimEndMatches(url, <<"/">>) \o <<"/", "a", "p", "i", "/", "v", "4">>,
                           graphql_url |->
                              IF e.CI_API_GRAPHQL_URL # None
                              THEN e.CI_API_GRAPHQL_URL[1]
                              ELSE IF hp # None
                                   THEN infer_gitlab_graphql_url(hp[1][1], hp[1][2])
                              ELSE TrimEndMatches(url, <<"/">>) \o <<"/", "a", "p", "i", "/", "g", "r", "a", "p", "h", "q", "l">>,
                           project_path |-> e.CI_PROJECT_PATH[1],
                           token |-> None])
            ELSE None
        github ==
            IF e.GITHUB_ACTIONS # None /\ e.GITHUB_SERVER_URL # None
                /\ e.GITHUB_REPOSITORY # None
            THEN LET server_url == e.GITHUB_SERVER_URL[1]
                     repository == e.GITHUB_REPOSITORY[1]
                     hp == extract_host_with_protocol(server_url)
                     pair == SplitOnce(repository, "/")
                 IN  IF pair = None THEN None
                     ELSE Some([kind |-> "GitHub",
                                url |-> Slash(server_url, repository),
                                api_url |->
                                   IF e.GITHUB_API_URL # None
                                   THEN e.GITHUB_API_URL[1]
                                   ELSE IF hp # None
                                        THEN infer_github_api_url(hp[1][1], hp[1][2])
                                   ELSE TrimEndMatches(server_url, <<"/">>)
                                            \o <<"/", "a", "p", "i", "/", "v", "3">>,
                                owner |-> pair[1][1],
                                repo |-> pair[1][2],
                                token |-> None])
            ELSE None
    IN  OrElse(gitlab, github)

\* parse_git_url: Some(<<host, owner, repo>>), or None for an Err
parse_git_url(url) ==
    LET pair == IF StartsWith(url, <<"h", "t", "t", "p", "s", ":", "/", "/">>)
                THEN SplitOnce(SubSeq(url, 9, Len(url)), "/")
                ELSE IF StartsWith(url, <<"g", "i", "t", "@">>)
                THEN SplitOnce(SubSeq(url, 5, Len(url)), ":")
                ELSE None
    IN  IF pair = None THEN None
        ELSE LET path == TrimEndMatches(pair[1][2], <<".", "g", "i", "t">>)
                 segments == SelectSeq(SplitOn(path, "/"),
                                       LAMBDA piece : piece # <<>>)
             IN  IF Len(segments) <= 1 THEN None
                 ELSE Some(<<pair[1][1],
                             JoinWith(SubSeq(segments, 1, Len(segments) - 1),
                                      <<"/">>),
                             segments[Len(segments)]>>)


\* Platform::from_origin_url
from_origin_url(url) ==
    LET parsed == parse_git_url(url)
    IN  IF parsed = None THEN Unknown
        ELSE LET host == parsed[1][1]
                 owner == parsed[1][2]
                 repo_name == parsed[1][3]
                 web == <<"h", "t", "t", "p", "s", ":", "/", "/">> \o Slash(Slash(host, owner), repo_name)
                 pieces == SplitOn(repo_name, "/")
             IN  IF Contains(host, <<"g", "i", "t", "h", "u", "b">>)
                 THEN [kind |-> "GitHub",
                       url |-> web,
                       api_url |-> infer_github_api_url(<<"h", "t", "t", "p", "s">>, host),
                       owner |-> owner,
                       repo |-> pieces[Len(pieces)],
                       token |-> None]
                 ELSE IF Contains(host, <<"g", "i", "t", "l", "a", "b">>)
                 THEN [kind |-> "GitLab",
                       url |-> web,
                       api_url |-> infer_gitlab_api_url(<<"h", "t", "t", "p", "s">>, host),
                       graphql_url |-> infer_gitlab_graphql_url(<<"h", "t", "t", "p", "s">>, host),
                       project_path |-> Slash(owner, repo_name),
                       token |-> None]
                 ELSE Unknown

\* the token is read from the environment
with_token(e, found) ==
    IF found.kind = "GitHub" THEN [found EXCEPT !.token = e.GITHUB_TOKEN]
    ELSE IF found.kind = "GitLab" THEN [found EXCEPT !.token = e.GITLAB_TOKEN]
    ELSE found

\* the origin URL is consulted first, the environment only without one
detect_url_first(e, url) ==
    IF url # None THEN with_token(e, from_origin_url(url[1]))
    ELSE IF from_ci_env(e) # None THEN with_token(e, from_ci_env(e)[1])
    ELSE Unknown

\* Platform::detect(origin_url)
detect(e, url) ==
    LET ci == from_ci_env(e)
    IN  IF ci # None THEN with_token(e, ci[1])
        ELSE IF url # None THEN with_token(e, from_origin_url(url[1]))
        ELSE Unknown

\* the origin URLs tried
U_github == <<"h", "t", "t", "p", "s", ":", "/", "/", "g", "i", "t", "h", "u", "b", ".", "c", "o", "m", "/", "o", "/", "r", ".", "g", "i", "t">>
U_gitlab_ssh == <<"g", "i", "t", "@", "g", "i", "t", "l", "a", "b", ".", "c", "o", "m", ":", "g", "/", "o", "/", "r", ".", "g", "i", "t">>
U_other == <<"h", "t", "t", "p", "s", ":", "/", "/", "g", "i", "t", ".", "c", "o", "/", "o", "/", "r">>
U_no_owner == <<"h", "t", "t", "p", "s", ":", "/", "/", "g", "i", "t", "h", "u", "b", ".", "c", "o", "m", "/", "r">>
U_scheme == <<"s", "s", "h", ":", "/", "/", "g", "i", "t", "h", "u", "b", ".", "c", "o", "m", "/", "o", "/", "r">>

OriginUrls == {None, Some(U_github), Some(U_gitlab_ssh), Some(U_other),
               Some(U_no_owner), Some(U_scheme)}

\* a variable is unset or has one of the values
Var(values) == {None} \cup {Some(v) : v \in values}

Environments ==
    [GITLAB_CI : Var({<<"t", "r", "u", "e">>}),
     CI_PROJECT_URL : Var({<<"h", "t", "t", "p", "s", ":", "/", "/", "g", "i", "t", "l", "a", "b", ".", "c", "o", "/", "g", "/", "r">>}),
     CI_API_V4_URL : Var({<<"h", "t", "t", "p", "s", ":", "/", "/", "a", "p", "i", ".", "g", "i", "t", "l", "a", "b", ".", "c", "o", "/", "v", "4">>}),
     CI_API_GRAPHQL_URL : Var({<<"h", "t", "t", "p", "s", ":", "/", "/", "a", "p", "i", ".", "g", "i", "t", "l", "a", "b", ".", "c", "o", "/", "g", "r", "a", "p", "h", "q", "l">>}),
     CI_PROJECT_PATH : Var({<<"g", "/", "r">>}),
     GITHUB_ACTIONS : Var({<<"t", "r", "u", "e">>}),
     GITHUB_SERVER_URL : Var({<<"h", "t", "t", "p", "s", ":", "/", "/", "g", "i", "t", "h", "u", "b", ".", "c", "o", "m">>, <<"g", "h", "e", ".", "c", "o", "/">>}),
     GITHUB_REPOSITORY : Var({<<"o", "/", "r">>, <<"r">>}),
     GITHUB_API_URL : Var({<<"h", "t", "t", "p", "s", ":", "/", "/", "a", "p", "i", ".", "g", "h", "e", ".", "c", "o">>}),
     GITHUB_TOKEN : Var({<<"g", "h", "p">>}),
     GITLAB_TOKEN : Var({<<"g", "l", "p", "a", "t">>})]

InitDetect ==
    /\ pc = "detect"
    /\ env \in Environments
    /\ origin_url \in OriginUrls
    /\ platform = <<>>
    /\ ResolverIdle
    /\ TemplateIdle
    /\ ParserIdle
    /\ AnalyzeIdle
    /\ HistoryIdle

\* Platform::detect(origin_url)
Detect ==
    /\ pc = "detect"
    /\ platform' = detect(env, origin_url)
    /\ pc' = "done"
    /\ UNCHANGED <<env, origin_url, resolverVars, templateVars, analyzerVars,
                   historyVars, parserVars>>

NextDetect == Detect

SpecDetect == InitDetect /\ [][NextDetect]_vars

(***************************************************************************)
(* TemplateResolver::resolve (src/src/template.rs).  `files` is what the   *)
(* three candidate paths hold in the working directory: nothing, a         *)
(* directory, or a file, which can or cannot be read as text.              *)
(***************************************************************************)
Candidates ==
    << <<"r", "e", "l", "e", "a", "s", "e", "-", "n", "o", "t", "e", ".", "t", "e", "r", "a">>, <<".", "g", "i", "t", "h", "u", "b", "/", "r", "e", "l", "e", "a", "s", "e", "-", "n", "o", "t", "e", ".", "t", "e", "r", "a">>,
       <<".", "g", "i", "t", "l", "a", "b", "/", "r", "e", "l", "e", "a", "s", "e", "-", "n", "o", "t", "e", ".", "t", "e", "r", "a">> >>

DEFAULT_TEMPLATE == <<"#", "#", " ", "d", "e", "f", "a", "u", "l", "t">>

\* what a file may hold
TemplateTexts == {<<"#", " ", "R", "o", "o", "t">>, <<"{", "{", " ", "v", " ", "}", "}">>, <<"{", "{", " ", "v">>}

\* what a candidate path may be
PathStates ==
    {[kind |-> "absent"], [kind |-> "dir"], [kind |-> "file", readable |-> FALSE]}
        \cup {[kind |-> "file", readable |-> TRUE, content |-> t] :
                    t \in TemplateTexts}

\* Path::is_file
is_file(entry) == entry.kind = "file"

\* Tera::add_raw_template succeeds: every `{{` of the text is closed by `}}`
add_raw_template(content) ==
    \A k \in 1..(Len(content) - 1) :
        (content[k] = "{" /\ content[k + 1] = "{")
            => \E j \in (k + 2)..(Len(content) - 1) :
                    content[j] = "}" /\ content[j + 1] = "}"

Ok(value) == [ok |-> TRUE, value |-> value]
Err(context, path) == [ok |-> FALSE, error |-> context, path |-> path]

\* what resolve makes of the candidate it has found to be a file
load_candidate(fs, k) ==
    IF ~fs[k].readable THEN Err("failed to read template", Candidates[k])
    ELSE IF ~add_raw_template(fs[k].content)
         THEN Err("invalid template syntax", Candidates[k])
    ELSE Ok(fs[k].content)

\* a candidate that fails is passed over for the next one
resolve_first_loadable(fs) ==
    LET good == {k \in DOMAIN fs : is_file(fs[k]) /\ load_candidate(fs, k).ok}
    IN  IF good = {} THEN Ok(DEFAULT_TEMPLATE)
        ELSE load_candidate(fs, CHOOSE k \in good : \A j \in good : k <= j)

\* TemplateResolver::resolve: the loop returns at the first candidate that
\* is a file
resolve(fs) ==
    LET found == {k \in DOMAIN fs : is_file(fs[k])}
    IN  IF found = {} THEN Ok(DEFAULT_TEMPLATE)
        ELSE load_candidate(fs, CHOOSE k \in found : \A j \in found : k <= j)

InitTemplate ==
    /\ pc = "template"
    /\ files \in [DOMAIN Candidates -> PathStates]
    /\ template = <<>>
    /\ ResolverIdle
    /\ PlatformIdle
    /\ ParserIdle
    /\ AnalyzeIdle
    /\ HistoryIdle

\* TemplateResolver::resolve()
ResolveTemplate ==
    /\ pc = "template"
    /\ template' = resolve(files)
    /\ pc' = "done"
    /\ UNCHANGED <<files, resolverVars, platformVars, analyzerVars,
                   historyVars, parserVars>>

NextTemplate == ResolveTemplate

SpecTemplate == InitTemplate /\ [][NextTemplate]_vars

(***************************************************************************)
(* Properties of the classifier                                            *)
(***************************************************************************)
LowerSeq == <<"a", "b", "c", "d", "e", "f", "g", "h", "i", "j", "k", "l", "m",
              "n", "o", "p", "q", "r", "s", "t", "u", "v", "w", "x", "y", "z">>
UpperSeq == <<"A", "B", "C", "D", "E", "F", "G", "H", "I", "J", "K", "L", "M",
              "N", "O", "P", "Q", "R", "S", "T", "U", "V", "W", "X", "Y", "Z">>
ToUpper(s) ==
    [k \in 1..Len(s) |->
        IF s[k] \in Lower
        THEN UpperSeq[CHOOSE n \in 1..26 : LowerSeq[n] = s[k]] ELSE s[k]]
ToLower(s) ==
    [k \in 1..Len(s) |->
        IF s[k] \in Upper
        THEN LowerSeq[CHOOSE n \in 1..26 : UpperSeq[n] = s[k]] ELSE s[k]]

\* the conventional-commit header as the specification words it: the type
\* is letters of either case, the scope letters, digits and hyphens
SpecHeader(line) == HeaderMatch(line, Letter, Letter \cup Digit \cup {"-"})

\* the lines of a text
RECURSIVE LinesOf(_)
LinesOf(s) ==
    IF \E k \in 1..Len(s) : s[k] = "\n"
    THEN LET n == CHOOSE k \in 1..Len(s) :
                    s[k] = "\n" /\ \A j \in 1..(k - 1) : s[j] # "\n"
         IN  <<SubSeq(s, 1, n - 1)>> \o LinesOf(SubSeq(s, n + 1, Len(s)))
    ELSE <<s>>

\* the keys of the `Key: value` lines of a commit's footer
TrailerKeysOf(commit) ==
    IF commit.footer = None THEN {}
    ELSE LET ls == LinesOf(commit.footer[1])
         IN  {SubSeq(ls[n], 1, k - 1) :
                <<n, k>> \in {q \in (1..Len(ls)) \X (1..Len(commit.footer[1])) :
                                /\ q[2] <= Len(ls[q[1]])
                                /\ ls[q[1]][q[2]] = ":"
                                /\ \A j \in 1..(q[2] - 1) : ls[q[1]][j] # ":"}}

BreakingKeys ==
    {<<"B", "R", "E", "A", "K", "I", "N", "G", " ", "C", "H", "A", "N", "G", "E">>,
     <<"B", "R", "E", "A", "K", "I", "N", "G", " ", "C", "H", "A", "N", "G", "E", "S">>}

\* a trailer key, uppercased and with hyphens turned into spaces
NormalizeKey(key) ==
    LET up == ToUpper(key)
    IN  [k \in 1..Len(up) |-> IF up[k] = "-" THEN " " ELSE up[k]]

HasBreakingTrailer(commit) ==
    \E key \in TrailerKeysOf(commit) : NormalizeKey(key) \in BreakingKeys

\* the commits analyze has categorized so far
Processed == 1..(i - 1)

\* the categories whose bucket holds the commit
BucketsOf(commit) ==
    {cat \in DOMAIN by_category :
        \E j \in 1..Len(by_category[cat]) : by_category[cat][j] = commit}

\* C1: a commit whose first line matches the conventional-commit header with
\* the breaking marker `!` present is in the Breaking bucket and in no other
\* bucket, whatever its type and scope.
BreakingPrecedence ==
    \A k \in Processed :
        SpecHeader(commits[k].first_line).bang
            => BucketsOf(commits[k]) = {"Breaking"}

WitnessBreakingPrecedence ==
    /\ pc = "done"
    /\ \E k \in 1..Len(commits) :
        LET m == SpecHeader(commits[k].first_line)
        IN  /\ m.bang
            /\ m.type = S_feat
            /\ m.scope = Some(S_deps)
            /\ commits[k].footer = None
            /\ BucketsOf(commits[k]) = {"Breaking"}

\* C2: a non-breaking commit whose first line matches the header with scope
\* `deps` is in the Dependencies bucket, whatever its type.
ScopeOverride ==
    \A k \in Processed :
        LET m == SpecHeader(commits[k].first_line)
        IN  (/\ m.ok
             /\ ~m.bang
             /\ ~HasBreakingTrailer(commits[k])
             /\ m.scope = Some(S_deps))
                => BucketsOf(commits[k]) = {"Dependencies"}

\* the type table of the specification
SpecTypeCategory(type) ==
    CASE type = S_feat -> "Feature"
      [] type = S_fix -> "Fix"
      [] type = S_docs -> "Documentation"
      [] type = S_ci -> "CI"
      [] type = S_test -> "Test"
      [] type = S_perf -> "Performance"
      [] type = S_chore -> "Chore"
      [] type = S_refactor -> "Refactor"
      [] OTHER -> "Other"

\* the header with a lowercase type and a scope of lowercase letters and
\* hyphens: the first lines that are headers for the specification and for
\* the expression of parse_conventional_commit alike
PlainHeader(line) == HeaderMatch(line, Lower, Lower \cup {"-"})

\* C3: a non-breaking commit whose first line matches the header with no
\* scope or a scope other than `deps` is in the bucket the type table gives:
\* feat Feature, fix Fix, docs Documentation, ci CI, test Test, perf
\* Performance, chore Chore, refactor Refactor, any other type Other.
\* (Stated for lowercase types, where the table needs no case folding.)
TypeTable ==
    \A k \in Processed :
        LET m == PlainHeader(commits[k].first_line)
        IN  (/\ m.ok
             /\ ~m.bang
             /\ ~HasBreakingTrailer(commits[k])
             /\ m.scope # Some(S_deps))
                => BucketsOf(commits[k]) = {SpecTypeCategory(m.type)}

\* C4: a commit with no breaking-change trailer whose first line does not
\* match the header is in the Other bucket.
HeaderlessIsOther ==
    \A k \in Processed :
        (/\ ~HasBreakingTrailer(commits[k])
         /\ ~SpecHeader(commits[k].first_line).ok)
            => BucketsOf(commits[k]) = {"Other"}

\* C5: a commit one of whose trailers has a key that, uppercased and with
\* hyphens turned into spaces, is BREAKING CHANGE or BREAKING CHANGES is in
\* the Breaking bucket, whatever its first line and the trailer's position.
BreakingTrailer ==
    \A k \in Processed :
        HasBreakingTrailer(commits[k]) => BucketsOf(commits[k]) = {"Breaking"}

RECURSIVE SumLen(_, _)
SumLen(map, keys) ==
    IF keys = {} THEN 0
    ELSE LET k == CHOOSE x \in keys : TRUE
         IN  Len(map[k]) + SumLen(map, keys \ {k})

\* C6: every commit analyze has taken is in exactly one bucket, the sizes of
\* the buckets sum to the number of commits taken (the length of the input
\* when analyze returns), and a category is a key only if its bucket holds a
\* commit.
Exclusivity ==
    /\ \A k \in 1..Len(commits) :
        Cardinality(BucketsOf(commits[k])) = IF k \in Processed THEN 1 ELSE 0
    /\ SumLen(by_category, DOMAIN by_category) = i - 1
    /\ pc = "done" => SumLen(by_category, DOMAIN by_category) = Len(commits)
    /\ DOMAIN by_category \subseteq CommitCategory
    /\ \A cat \in DOMAIN by_category : Len(by_category[cat]) >= 1

WitnessExclusivity ==
    /\ pc = "done"
    /\ Len(commits) = 3
    /\ Cardinality(DOMAIN by_category) = 2
    /\ SumLen(by_category, DOMAIN by_category) = 3

\* C7: every bucket is a subsequence of the input: its commits are input
\* commits, in the order of the input.
OrderRetention ==
    \A cat \in DOMAIN by_category :
        LET bucket == by_category[cat]
        IN  /\ \A a \in 1..Len(bucket) :
                /\ bucket[a].hash \in 1..Len(commits)
                /\ bucket[a] = commits[bucket[a].hash]
            /\ \A a \in 1..Len(bucket), b \in 1..Len(bucket) :
                a < b => bucket[a].hash < bucket[b].hash

\* feat, fix, feat: the Feature bucket holds the first and the third commit
WitnessOrderRetention ==
    /\ pc = "done"
    /\ "Feature" \in DOMAIN by_category
    /\ "Fix" \in DOMAIN by_category
    /\ Len(by_category["Feature"]) = 2
    /\ by_category["Feature"][1].hash = 1
    /\ by_category["Feature"][2].hash = 3
    /\ by_category["Fix"][1].hash = 2

(***************************************************************************)
(* Properties of the range resolver                                        *)
(***************************************************************************)
AsSet(q) == {q[k] : k \in DOMAIN q}
NoDuplicate(q) == \A a \in DOMAIN q, b \in DOMAIN q : q[a] = q[b] => a = b

\* the commits the catalog's tags point at
TagTargets == {tags[k].oid : k \in DOMAIN tags}

\* the catalog is in descending order of commit time
CatalogNewestFirst ==
    \A a \in DOMAIN tags, b \in DOMAIN tags :
        a < b => repo.time[tags[a].oid] >= repo.time[tags[b].oid]

\* history returned Ok with exactly the commits of X, each once
Returned(X) == AsSet(hist_commits) = X /\ NoDuplicate(hist_commits)

\* `from` names a tag of the catalog and no `to` is given
FromIsRelease ==
    /\ from # None
    /\ to = None
    /\ \E k \in DOMAIN tags : tags[k].name = from[1]

\* the position of the catalog entry that `from` names
FromPos == CHOOSE k \in DOMAIN tags : tags[k].name = from[1]

\* the last position of the catalog that points at the commit of `from`
FromLastPos ==
    CHOOSE k \in DOMAIN tags :
        /\ tags[k].oid = from_oid
        /\ \A j \in DOMAIN tags : tags[j].oid = from_oid => j <= k

\* C8 as claimed: when `from` names a release tag, no `to` is given and the
\* catalog entry right after it is an older tag, `to` is that entry and the
\* result is the commits after the older tag's commit up to and including
\* the commit of `from`.
RangeBetweenReleases ==
    (/\ pc = "done"
     /\ FromIsRelease
     /\ FromPos < Len(tags)
     /\ repo.time[tags[FromPos + 1].oid] < repo.time[from_oid])
        => /\ to_oid = Some(tags[FromPos + 1].oid)
           /\ Returned(Reachable(repo, from_oid)
                         \ Reachable(repo, tags[FromPos + 1].oid))
           /\ from_oid \in AsSet(hist_commits)

\* C8 as amended: `to` is the catalog entry that follows the last entry
\* pointing at the commit of `from`, in a catalog ordered newest commit
\* first; the result is the commits reachable from `from` and not from that
\* entry's commit, so it holds the commit of `from` unless that commit is
\* reachable from the entry's commit.
RangeBetweenReleasesAmended ==
    (/\ pc = "done"
     /\ FromIsRelease
     /\ FromLastPos < Len(tags))
        => LET older == tags[FromLastPos + 1].oid
           IN  /\ CatalogNewestFirst
               /\ from_oid = tags[FromPos].oid
               /\ to_oid = Some(older)
               /\ Returned(Reachable(repo, from_oid) \ Reachable(repo, older))
               /\ older \notin AsSet(hist_commits)
               /\ from_oid \in AsSet(hist_commits)
                    <=> from_oid \notin Reachable(repo, older)

\* from the newest of two releases on a line of three commits
WitnessRangeBetweenReleases ==
    /\ pc = "done"
    /\ FromIsRelease
    /\ FromLastPos < Len(tags)
    /\ repo.time[tags[FromLastPos + 1].oid] < repo.time[from_oid]
    /\ Len(hist_commits) = 2
    /\ hist_commits[1] = from_oid
    /\ tags[FromLastPos + 1].oid \in Reachable(repo, from_oid)

\* C9: with neither `from` nor `to`, `from` is the head; when the head is no
\* tag target and the catalog is not empty, `to` is the first entry of the
\* catalog, a tag of the newest tagged commit, and the result is the commits
\* reachable from the head and not from that tag's commit.
UnreleasedChanges ==
    (/\ pc \in {"walk", "done"}
     /\ from = None
     /\ to = None)
        => /\ from_oid = repo.head
           /\ (repo.head \notin TagTargets /\ tags # <<>>)
                => /\ to_oid = Some(tags[1].oid)
                   /\ \A k \in DOMAIN tags :
                        repo.time[tags[1].oid] >= repo.time[tags[k].oid]
                   /\ pc = "done"
                        => Returned(Reachable(repo, repo.head)
                                      \ Reachable(repo, tags[1].oid))

WitnessUnreleasedChanges ==
    /\ pc = "done"
    /\ from = None
    /\ to = None
    /\ repo.head \notin TagTargets
    /\ Len(tags) = 2
    /\ repo.time[tags[1].oid] > repo.time[tags[2].oid]
    /\ Len(hist_commits) = 2

\* the tag targets among the commits reachable from `from`
TaggedAncestors == Reachable(repo, from_oid) \cap TagTargets

\* `from` is a commit that is no tag target and not the head, no `to` is
\* given and the catalog is not empty
FromIsPlainCommit ==
    /\ from # None
    /\ to = None
    /\ from_oid \notin TagTargets
    /\ from_oid # repo.head
    /\ tags # <<>>

\* C10: when `from` is a commit that is neither a tag target nor the head,
\* no `to` is given and the catalog is not empty, `to` is the first tag
\* target that a topological, newest-first walk from `from` meets (so no
\* other tagged commit of the walk descends from it); when the walk meets no
\* tag target, `to` stays absent and the result is everything reachable from
\* `from`.
NearestAncestorTag ==
    (pc \in {"walk", "done"} /\ FromIsPlainCommit)
        => IF TaggedAncestors = {}
           THEN /\ to_oid = None
                /\ pc = "done" => Returned(Reachable(repo, from_oid))
           ELSE /\ to_oid # None
                /\ to_oid[1] \in TaggedAncestors
                /\ \E order \in Revwalk(repo, from_oid, None) :
                    \E k \in DOMAIN order :
                        /\ order[k] = to_oid[1]
                        /\ \A j \in 1..(k - 1) : order[j] \notin TagTargets
                /\ \A t \in TaggedAncestors \ {to_oid[1]} :
                    to_oid[1] \notin Reachable(repo, t)

\* two tagged ancestors, the nearer one bounds the range
WitnessNearestAncestorTag ==
    /\ pc = "done"
    /\ FromIsPlainCommit
    /\ Cardinality(TaggedAncestors) = 2
    /\ to_oid # None
    /\ Len(hist_commits) = 1

\* no tagged ancestor: the whole history of `from`
WitnessNoAncestorTag ==
    /\ pc = "done"
    /\ FromIsPlainCommit
    /\ TaggedAncestors = {}
    /\ to_oid = None
    /\ Len(hist_commits) >= 2

\* the commit a reference names: the head for no reference, else a commit
\* by its hexadecimal name or the target of the tag of that name
NamedBy(ref, c) ==
    IF ref = None THEN c = repo.head
    ELSE \/ Hex(c) = ref[1]
         \/ \E k \in DOMAIN repo.tags :
                repo.tags[k].name = ref[1] /\ repo.tags[k].target = c

\* C12: with an explicit `to` and no path scope, history returns exactly the
\* commits reachable from `from` and not reachable from `to`, each once:
\* `to` itself is left out, `from` is in the result unless it is reachable
\* from `to`; the commit times play no part.
ExclusiveUpperBound ==
    (pc = "done" /\ to # None /\ path_filter = None)
        => /\ NamedBy(from, from_oid)
           /\ to_oid # None
           /\ NamedBy(to, to_oid[1])
           /\ Returned(Reachable(repo, from_oid) \ Reachable(repo, to_oid[1]))
           /\ to_oid[1] \notin AsSet(hist_commits)
           /\ from_oid \in AsSet(hist_commits)
                <=> from_oid \notin Reachable(repo, to_oid[1])

\* from a merge commit, `to` one of its parents: the other parent is in the
\* result although it is not newer than `to`
WitnessExclusiveUpperBound ==
    /\ pc = "done"
    /\ from # None
    /\ to # None
    /\ Len(repo.parents[from_oid]) = 2
    /\ to_oid = Some(repo.parents[from_oid][1])
    /\ Len(hist_commits) = 2
    /\ \E k \in DOMAIN hist_commits :
            repo.time[hist_commits[k]] < repo.time[to_oid[1]]

\* `from` and `to` name the same commit
SameCommitNamed ==
    /\ to # None
    /\ \E c \in Oids(repo) : NamedBy(from, c) /\ NamedBy(to, c)

\* C13: when `from` and `to` resolve to the same commit history does not
\* fail, the walk yields nothing and the list returned is empty, whatever
\* the tags and the path scope.
SameCommitEmpty ==
    /\ SameCommitNamed => pc # "error"
    /\ (pc \in {"walk", "done"} /\ SameCommitNamed) => to_oid = Some(from_oid)
    /\ (pc \in {"walk", "done"} /\ to_oid = Some(from_oid))
            => revwalk = <<>> /\ hist_commits = <<>>

\* `from` a release tag, `to` the name of the same commit, a path scope that
\* the commit touches
WitnessSameCommitEmpty ==
    /\ pc = "done"
    /\ SameCommitNamed
    /\ \E k \in DOMAIN tags : from = Some(tags[k].name)
    /\ path_filter # None
    /\ commit_touches_path(repo, from_oid)
    /\ Reachable(repo, from_oid) # {from_oid}
    /\ hist_commits = <<>>

\* a commit is relevant to the path scope: a root commit when the path
\* exists in its tree, any other commit when the path's content differs
\* from the one in its first parent's tree
Relevant(c) ==
    IF repo.parents[c] = <<>>
    THEN repo.tree[c] > 0
    ELSE repo.tree[c] # repo.tree[Head(repo.parents[c])]

\* C16: with a path scope, history returns the relevant commits of the
\* unscoped walk between the same `from` and `to`, in the walk's order, and
\* `to` is resolved as it is without a path scope: a tag on a commit that is
\* not relevant still bounds the range.
PathFiltering ==
    (pc = "done" /\ path_filter # None)
        => /\ to_oid \in ResolveTo(repo,
                                   load_tags_sorted(repo, detect_prefix_from_from_ref(from)),
                                   from_oid, to)
           /\ \E order \in Revwalk(repo, from_oid, to_oid) :
                hist_commits = SelectSeq(order, Relevant)
           /\ \A c \in Reachable(repo, from_oid) :
                c \in AsSet(hist_commits)
                    <=> /\ Relevant(c)
                        /\ to_oid = None \/ c \notin Reachable(repo, to_oid[1])

\* the range is bounded by a tag on a commit the path scope drops, and of
\* the two commits of the range one is dropped
WitnessPathFiltering ==
    /\ pc = "done"
    /\ path_filter # None
    /\ to = None
    /\ to_oid # None
    /\ ~Relevant(to_oid[1])
    /\ Cardinality(Reachable(repo, from_oid) \ Reachable(repo, to_oid[1])) = 2
    /\ Len(hist_commits) = 1
    /\ hist_commits[1] # from_oid

\* a reference that is given resolves to a commit
Resolvable(ref) == \E c \in Oids(repo) : NamedBy(ref, c)

\* a call of the loop body fails at commit c: the walk's own step, the
\* lookup of the commit or, with a path scope, the relevance check
CallFailsAt(c) ==
    \/ repo.fails[c] = "walk"
    \/ repo.fails[c] = "find_commit"
    \/ repo.fails[c] = "tree" /\ path_filter # None

\* the commits history has to walk
WalkRange ==
    Reachable(repo, from_oid)
        \ (IF to_oid = None THEN {} ELSE Reachable(repo, to_oid[1]))

NamespaceOf(name) ==
    IF \E k \in 1..Len(name) : name[k] = "/"
    THEN Some(SubSeq(name, 1,
                     (CHOOSE k \in 1..Len(name) :
                        name[k] = "/" /\ \A j \in (k + 1)..Len(name) : name[j] # "/") - 1))
    ELSE None

\* the part of a tag name after its last '/', the whole name when it has none
VersionOf(name) ==
    IF NamespaceOf(name) = None THEN name
    ELSE SubSeq(name, Len(NamespaceOf(name)[1]) + 2, Len(name))

\* the name is <semver> or P/<semver>, the version with or without a `v`
IsSemanticName(name) ==
    LET v == VersionOf(name)
    IN  VersionParse(IF Len(v) >= 1 /\ v[1] = "v" THEN Tail(v) ELSE v)

\* the namespace `from` selects: P when `from` is P/<semver>, else the global
\* one (None)
ActiveNamespace ==
    IF from # None /\ NamespaceOf(from[1]) # None /\ IsSemanticName(from[1])
    THEN NamespaceOf(from[1])
    ELSE None

\* the tags of the repository that are semantic versions of the active
\* namespace
ReleaseTags ==
    {k \in DOMAIN repo.tags :
        /\ IsSemanticName(repo.tags[k].name)
        /\ NamespaceOf(repo.tags[k].name) = ActiveNamespace}

\* C11: when `to` is not given and no tag of the repository is both a
\* semantic version and in the active namespace, `to` stays absent and
\* history returns every commit reachable from `from`; and a `to` that was
\* inferred is always the target of a tag that is a semantic version.
FirstRelease ==
    (pc \in {"walk", "done"} /\ to = None)
        => /\ ReleaseTags = {}
                => /\ to_oid = None
                   /\ pc = "done" => Returned(Reachable(repo, from_oid))
           /\ to_oid # None
                => \E k \in DOMAIN repo.tags :
                        /\ repo.tags[k].target = to_oid[1]
                        /\ IsSemanticName(repo.tags[k].name)

\* head of a line of three commits, a non-version tag and a tag of a
\* namespace on its ancestors: the whole history
WitnessFirstRelease ==
    /\ pc = "done"
    /\ from = None
    /\ to = None
    /\ Len(repo.tags) = 2
    /\ \E k \in DOMAIN repo.tags :
            /\ ~IsSemanticName(repo.tags[k].name)
            /\ repo.tags[k].target \in Reachable(repo, from_oid) \ {from_oid}
    /\ \E k \in DOMAIN repo.tags :
            /\ IsSemanticName(repo.tags[k].name)
            /\ NamespaceOf(repo.tags[k].name) # None
    /\ ReleaseTags = {}
    /\ to_oid = None
    /\ Len(hist_commits) = 3

\* C14: every tag the resolver picks as `to` is a semantic version of
\* exactly the active namespace: P/<semver> when `from` is P/<semver> (the
\* part before the tag's last '/' is P), a name with no '/' when `from` has
\* no semantic version after a slash or is absent; a tag of another
\* namespace, a nested one included, never bounds the range.
NamespaceScoping ==
    (pc \in {"walk", "done"} /\ to = None)
        => (to_oid # None
                => \E k \in DOMAIN repo.tags :
                        /\ repo.tags[k].target = to_oid[1]
                        /\ IsSemanticName(repo.tags[k].name)
                        /\ NamespaceOf(repo.tags[k].name) = ActiveNamespace)

\* `from` names a tag P/<semver> of the repository and no `to` is given
FromIsNamespaceTag ==
    /\ from # None
    /\ to = None
    /\ ActiveNamespace # None
    /\ \E k \in DOMAIN repo.tags : repo.tags[k].name = from[1]

\* the tags of another namespace that point at another commit than `from`
\* (a namespace nested in the active one is left out here: it is the case of
\* the namespace scoping)
ForeignTags ==
    {k \in DOMAIN repo.tags :
        /\ IsSemanticName(repo.tags[k].name)
        /\ NamespaceOf(repo.tags[k].name) # None
        /\ NamespaceOf(repo.tags[k].name) # ActiveNamespace
        /\ ~StartsWith(repo.tags[k].name, ActiveNamespace[1] \o <<"/">>)
        /\ repo.tags[k].target # from_oid}

OwnTagsOnly ==
    [repo EXCEPT !.tags =
        SelectSeq(repo.tags,
                  LAMBDA t : StartsWith(t.name, ActiveNamespace[1] \o <<"/">>))]

ParagraphText(pt) == Join(Spread(pt.paras, 1))

\* the trailer lines as text
TrailerText(pt) == Join(pt.trailers)

\* a first line, a blank line, paragraphs separated by single blank lines, a
\* blank line and a final block of trailer lines (the message may end with
\* the newline of its last line)
BoundaryShape(pt) ==
    /\ pt.paras # <<>>
    /\ pt.gap = 1
    /\ pt.pre = 1
    /\ pt.trailers # <<>>
    /\ pt.tgap = 0
    /\ pt.tail <= 1

\* C18 as claimed: for a message of that shape the body is exactly the
\* paragraphs with their single blank lines, the footer exactly the trailer
\* lines, and the first line is in neither.
TrailerBoundary ==
    (pc = "done" /\ BoundaryShape(parts))
        => /\ parsed_commit[1].first_line = parts.first
           /\ parsed_commit[1].body = Some(ParagraphText(parts))
           /\ parsed_commit[1].footer = Some(TrailerText(parts))

\* the text without the whitespace before its first and after its last
\* character that is no whitespace
Trimmed(text) ==
    LET solid == {k \in 1..Len(text) : text[k] \notin {" ", "\t", "\n", "\r"}}
    IN  [k \in 1..(IF solid = {} THEN 0
                   ELSE 1 + (CHOOSE b \in solid : \A j \in solid : j <= b)
                          - (CHOOSE a \in solid : \A j \in solid : j >= a)) |->
            text[k - 1 + (CHOOSE a \in solid : \A j \in solid : j >= a)]]

\* C18 as amended: the body is the paragraphs with their single blank lines,
\* less the whitespace at the very start of the first paragraph and at the
\* very end of the last; the footer is the trailer lines; the first line is
\* in neither.
TrailerBoundaryAmended ==
    (pc = "done" /\ BoundaryShape(parts))
        => /\ parsed_commit[1].first_line = parts.first
           /\ parsed_commit[1].body = Some(Trimmed(ParagraphText(parts)))
           /\ parsed_commit[1].footer = Some(Trimmed(TrailerText(parts)))
           /\ ~Contains(parsed_commit[1].body[1], parts.first)
           /\ ~Contains(parsed_commit[1].footer[1], parts.first)
           /\ \A k \in DOMAIN parts.trailers :
                ~Contains(parsed_commit[1].body[1], parts.trailers[k])

\* two paragraphs, the second of two lines, and two trailer lines
WitnessTrailerBoundary ==
    /\ pc = "done"
    /\ BoundaryShape(parts)
    /\ Len(parts.paras) = 2
    /\ Len(parts.paras[2]) = 2
    /\ Len(parts.trailers) = 2
    /\ parsed_commit[1].body = Some(ParagraphText(parts))
    /\ Contains(parsed_commit[1].body[1], <<"\n", "\n">>)
    /\ parsed_commit[1].footer = Some(TrailerText(parts))

\* the lines of the text that are not blank, in order
SolidLines(text) == SelectSeq(Lines(text), LAMBDA line : ~IsBlank(line))

\* C19: the trailer lines at the end of a message are all reported, in their
\* order of appearance, whatever blank lines separate them from each other
\* and follow them, and none of them is left in the body.
TrailersAtEnd ==
    (pc = "done" /\ parts.trailers # <<>>)
        => /\ parsed_commit[1].footer # None
           /\ SolidLines(parsed_commit[1].footer[1]) = parts.trailers
           /\ \A k \in DOMAIN parts.trailers :
                parsed_commit[1].body = None
                \/ ~Contains(parsed_commit[1].body[1], parts.trailers[k])

\* C20: a run of three or more blank lines between two paragraphs leaves no
\* two consecutive blank lines in the body, and a body without text is
\* absent, never the empty string.
BlankLineNormalization ==
    pc = "done"
        => /\ parsed_commit[1].body # Some(<<>>)
           /\ (Len(parts.paras) >= 2 /\ parts.gap >= 3
                    /\ parsed_commit[1].body # None)
                => ~Contains(parsed_commit[1].body[1], <<"\n", "\n", "\n">>)

\* the fields of the parsed commit
CommitFields == DOMAIN parsed_commit[1]

\* the message has a line after the first that closes an issue
HasIssueLine(pt) == \E k \in DOMAIN pt.paras : << IssueLine >> = pt.paras[k]

\* C21: a line after the first that is a closing keyword followed by an issue
\* reference yields a linked issue on the commit and is excluded from the
\* body.
LinkedIssueExtraction ==
    (pc = "done" /\ HasIssueLine(parts))
        => /\ "linked_issues" \in CommitFields
           /\ parsed_commit[1].body = None
               \/ ~Contains(parsed_commit[1].body[1], IssueLine)

(***************************************************************************)
(* Properties of the contributor resolvers                                 *)
(***************************************************************************)
\* the k-th call of resolve is the first for its email
FirstForEmail(k) ==
    \A j \in 1..(k - 1) : resolve_log[j].email # resolve_log[k].email

\* C22: the commit API and the user API are asked at most once per email: a
\* later call for the same email asks neither and returns what the first
\* call returned, whatever the commit hash, also when that was None.
ContributorCache ==
    pc = "resolve"
        => \A k \in DOMAIN resolve_log : \A j \in 1..(k - 1) :
                resolve_log[j].email = resolve_log[k].email
                    => /\ ~resolve_log[k].commit_api
                       /\ ~resolve_log[k].user_api
                       /\ resolve_log[k].result = resolve_log[j].result

\* three calls for one email with different commit hashes, the first of
\* which asked the commit API and found nobody
WitnessContributorCache ==
    /\ pc = "resolve"
    /\ Len(resolve_log) = 3
    /\ resolve_log[1].email = resolve_log[2].email
    /\ resolve_log[1].email = resolve_log[3].email
    /\ resolve_log[1].commit_hash # resolve_log[2].commit_hash
    /\ resolve_log[1].commit_api
    /\ resolve_log[1].result = None
    /\ resolve_log[3].result = None
    /\ resolve_log[1].email \in DOMAIN resolver.cache

\* the username the first two steps give: the table of AI assistants, then
\* the noreply address of the resolver's platform that embeds the username
LocalUsername(kind, email) ==
    IF email = E_ai THEN Some(<<"c", "l", "a", "u", "d", "e">>)
    ELSE IF kind = "github" /\ email = E_github_noreply
         THEN Some(<<"p", "u", "c", "k">>)
    ELSE IF kind = "gitlab" /\ email = E_gitlab_noreply
         THEN Some(<<"p", "u", "c", "k">>)
    ELSE None

\* C23: the username comes from the table of AI assistants, else from the
\* noreply address, and only else from the commit API, which is never asked
\* for an email one of the first two steps resolves.
ResolutionOrder ==
    pc = "resolve"
        => \A k \in DOMAIN resolve_log :
            LET call == resolve_log[k]
                local == LocalUsername(resolver.kind, call.email)
            IN  /\ local # None
                    => /\ ~call.commit_api
                       /\ call.result # None
                       /\ call.result[1].username = local[1]
                /\ call.commit_api
                    => /\ resolve_ai_contributor(call.email) = None
                       /\ extract_username_from_noreply(resolver.kind,
                                                        call.email) = None
                /\ (FirstForEmail(k) /\ ~call.commit_api)
                    => \/ resolve_ai_contributor(call.email) # None
                       \/ extract_username_from_noreply(resolver.kind,
                                                        call.email) # None

\* one call resolved from the table, one from the noreply address and one
\* by the commit API
WitnessResolutionOrder ==
    /\ pc = "resolve"
    /\ Len(resolve_log) = 3
    /\ resolve_log[1].email = E_ai
    /\ resolve_log[1].result # None
    /\ ~resolve_log[1].commit_api
    /\ resolve_log[2].email = E_github_noreply
    /\ resolver.kind = "github"
    /\ resolve_log[2].result # None
    /\ ~resolve_log[2].commit_api
    /\ resolve_log[2].user_api
    /\ resolve_log[3].email = E_plain
    /\ resolve_log[3].commit_api
    /\ resolve_log[3].result # None

(***************************************************************************)
(* Properties of the platform detection                                    *)
(***************************************************************************)
\* the variables of GitLab CI are all set
GitLabComplete ==
    env.GITLAB_CI # None /\ env.CI_PROJECT_URL # None
        /\ env.CI_PROJECT_PATH # None

\* the variables of GitHub Actions are all set
GitHubComplete ==
    env.GITHUB_ACTIONS # None /\ env.GITHUB_SERVER_URL # None
        /\ env.GITHUB_REPOSITORY # None

\* the platform is the GitLab project the environment names
IsGitLabOfEnv ==
    /\ platform.kind = "GitLab"
    /\ platform.url = env.CI_PROJECT_URL[1]
    /\ platform.project_path = env.CI_PROJECT_PATH[1]

\* the platform is the GitHub repository the environment names
IsGitHubOfEnv ==
    /\ platform.kind = "GitHub"
    /\ platform.url = env.GITHUB_SERVER_URL[1] \o <<"/">> \o env.GITHUB_REPOSITORY[1]

\* what the origin URL alone says: the platform of a recognised host with
\* its web address, or nothing
OfOrigin ==
    IF origin_url = Some(U_github)
    THEN /\ platform.kind = "GitHub"
         /\ platform.url = <<"h", "t", "t", "p", "s", ":", "/", "/", "g", "i", "t", "h", "u", "b", ".", "c", "o", "m", "/", "o", "/", "r">>
    ELSE IF origin_url = Some(U_gitlab_ssh)
    THEN /\ platform.kind = "GitLab"
         /\ platform.url = <<"h", "t", "t", "p", "s", ":", "/", "/", "g", "i", "t", "l", "a", "b", ".", "c", "o", "m", "/", "g", "/", "o", "/", "r">>
    ELSE platform = Unknown

\* the token is the one of the platform's variable, None when it is unset
TokenOfEnv ==
    /\ platform.kind = "GitHub" => platform.token = env.GITHUB_TOKEN
    /\ platform.kind = "GitLab" => platform.token = env.GITLAB_TOKEN

\* C24 as claimed: with the variables of a CI platform complete the result is
\* that platform whatever the origin URL; otherwise the origin URL decides,
\* and none or an unrecognised host gives Unknown; the token is read from
\* the platform's variable.
PlatformPrecedence ==
    pc = "done"
        => /\ (GitLabComplete /\ ~GitHubComplete) => IsGitLabOfEnv
           /\ (GitHubComplete /\ ~GitLabComplete) => IsGitHubOfEnv
           /\ (GitLabComplete /\ GitHubComplete)
                => (IsGitLabOfEnv \/ IsGitHubOfEnv)
           /\ (~GitLabComplete /\ ~GitHubComplete) => OfOrigin
           /\ TokenOfEnv

\* the variables of GitHub Actions identify a repository: they are all set
\* and GITHUB_REPOSITORY has the form owner/repo
GitHubIdentified ==
    GitHubComplete /\ \E k \in DOMAIN env.GITHUB_REPOSITORY[1] :
                            env.GITHUB_REPOSITORY[1][k] = "/"

\* C24 as amended: the variables of GitHub Actions identify the platform
\* only when GITHUB_REPOSITORY has the form owner/repo; otherwise as claimed.
PlatformPrecedenceAmended ==
    pc = "done"
        => /\ (GitLabComplete /\ ~GitHubIdentified) => IsGitLabOfEnv
           /\ (GitHubIdentified /\ ~GitLabComplete) => IsGitHubOfEnv
           /\ (GitLabComplete /\ GitHubIdentified)
                => (IsGitLabOfEnv \/ IsGitHubOfEnv)
           /\ (~GitLabComplete /\ ~GitHubIdentified) => OfOrigin
           /\ TokenOfEnv

\* GitHub Actions with a token, and the origin URL of a GitLab project
WitnessPlatformPrecedence ==
    /\ pc = "done"
    /\ GitHubIdentified
    /\ ~GitLabComplete
    /\ origin_url = Some(U_gitlab_ssh)
    /\ env.GITHUB_TOKEN # None
    /\ platform.kind = "GitHub"
    /\ platform.owner = <<"o">>
    /\ platform.token = env.GITHUB_TOKEN

(***************************************************************************)
(* Properties of the template resolver                                     *)
(***************************************************************************)
\* the candidates that exist as files, by priority
ExistingFiles == {k \in DOMAIN files : files[k].kind = "file"}

FirstExisting == CHOOSE k \in ExistingFiles : \A j \in ExistingFiles : k <= j

\* the file can be read and its text is a template
ParsesAsTemplate(entry) ==
    entry.readable /\ entry.content \in {<<"#", " ", "R", "o", "o", "t">>, <<"{", "{", " ", "v", " ", "}", "}">>}

\* C25 as claimed: the first existing candidate decides: its content when it
\* parses as a template, an `invalid template syntax` error when it does
\* not; the default template only when no candidate exists.
TemplatePriority ==
    pc = "done"
        => IF ExistingFiles = {} THEN template = Ok(DEFAULT_TEMPLATE)
           ELSE IF ParsesAsTemplate(files[FirstExisting])
                THEN template = Ok(files[FirstExisting].content)
           ELSE /\ ~template.ok
                /\ template.error = "invalid template syntax"
                /\ template.path = Candidates[FirstExisting]

\* C25 as amended: as claimed, but a first existing candidate that cannot be
\* read gives a `failed to read template` error.
TemplatePriorityAmended ==
    pc = "done"
        => IF ExistingFiles = {} THEN template = Ok(DEFAULT_TEMPLATE)
           ELSE IF ParsesAsTemplate(files[FirstExisting])
                THEN template = Ok(files[FirstExisting].content)
           ELSE /\ ~template.ok
                /\ template.error = IF files[FirstExisting].readable
                                    THEN "invalid template syntax"
                                    ELSE "failed to read template"
                /\ template.path = Candidates[FirstExisting]

\* no template at the root, one with a syntax error under .github and a good
\* one under .gitlab: the error is returned
WitnessTemplatePriority ==
    /\ pc = "done"
    /\ files[1].kind = "absent"
    /\ files[2].kind = "file"
    /\ files[2].readable
    /\ files[2].content = <<"{", "{", " ", "v">>
    /\ files[3].kind = "file"
    /\ ParsesAsTemplate(files[3])
    /\ ~template.ok
    /\ template.path = Candidates[2]

(***************************************************************************)
(* The classifier and the letter case of the type                          *)
(***************************************************************************)
\* the commit with the type of its header in lower case
WithLowerType(commit) ==
    LET line == commit.first_line
        type == SpecHeader(line).type
    IN  [commit EXCEPT !.first_line =
            ToLower(type) \o SubSeq(line, Len(type) + 1, Len(line))]

\* C26: changing the letter case of the type of the header does not change
\* the category: a commit is in the bucket of the commit that differs from
\* it only in having its type in lower case.
TypeCaseInsensitive ==
    \A k \in Processed :
        SpecHeader(commits[k].first_line).ok
            => BucketsOf(commits[k]) = {categorize(WithLowerType(commits[k]))}

(***************************************************************************)
(* Properties of the tag catalog                                           *)
(***************************************************************************)
\* the name matches the prefix: no '/' in it when there is no prefix, else
\* it begins with the prefix and a '/'
MatchesPrefix(name, prefix) ==
    IF prefix = None THEN \A k \in DOMAIN name : name[k] # "/"
    ELSE /\ Len(name) > Len(prefix[1])
         /\ SubSeq(name, 1, Len(prefix[1]) + 1) = prefix[1] \o <<"/">>

\* the tags of the listing that belong in the catalog
Cataloged ==
    {k \in DOMAIN repo.tags :
        /\ MatchesPrefix(repo.tags[k].name, ActiveNamespace)
        /\ IsSemanticName(repo.tags[k].name)
        /\ repo.tags[k].target \in DOMAIN repo.parents}

\* the tags the catalog has before tag k of the listing: those of a newer
\* commit, and those of a commit of the same time listed earlier
Before(k) ==
    {j \in Cataloged :
        \/ repo.time[repo.tags[j].target] > repo.time[repo.tags[k].target]
        \/ /\ repo.time[repo.tags[j].target] = repo.time[repo.tags[k].target]
           /\ j < k}

\* C27: the catalog holds exactly the tags that match the prefix, are
\* semantic versions and name a commit, newest commit first and tags of equal
\* time in the order of the listing; a tag that names no commit is left out
\* and the load does not fail for it; the catalog may be empty.
TagCatalog ==
    pc \in {"walk", "done"}
        => /\ Len(tags) = Cardinality(Cataloged)
           /\ \A k \in Cataloged :
                tags[Cardinality(Before(k)) + 1] =
                    [name |-> repo.tags[k].name, oid |-> repo.tags[k].target]

\* two tags of commits of the same time in the catalog, in listing order
WitnessTagCatalog ==
    /\ pc = "done"
    /\ Len(repo.tags) = 2
    /\ Len(tags) = 2
    /\ tags[1].oid # tags[2].oid
    /\ repo.time[tags[1].oid] = repo.time[tags[2].oid]
    /\ tags[1].name = repo.tags[1].name
    /\ ActiveNamespace # None

\* a tag that names no commit beside one that does: the catalog has the
\* second only, and history returns
WitnessTagSkipped ==
    /\ pc = "done"
    /\ Len(repo.tags) = 2
    /\ repo.tags[1].target = NoCommit
    /\ IsSemanticName(repo.tags[1].name)
    /\ MatchesPrefix(repo.tags[1].name, ActiveNamespace)
    /\ Len(tags) = 1
    /\ tags[1].name = repo.tags[2].name

\* `from` resolved to a commit that a catalog tag points at, and no `to` is
\* given
FromIsTagTarget ==
    /\ to = None
    /\ from_oid \in TagTargets

\* C28: the index lookup precedes the ancestry walk: when no `to` is given,
\* the commit of `from` is a tag target of the catalog and the entry after
\* it in the catalog is an older tag, `to` is that entry whether or not its
\* commit is an ancestor of `from`, whatever the nearest-ancestor walk would
\* find, and the result is the commits reachable from `from` and not
\* reachable from that entry's commit.
IndexBeforeWalk ==
    (/\ pc = "done"
     /\ FromIsTagTarget
     /\ FromLastPos < Len(tags)
     /\ repo.time[tags[FromLastPos + 1].oid] < repo.time[from_oid])
        => LET next == tags[FromLastPos + 1].oid
           IN  /\ to_oid = Some(next)
               /\ Returned(Reachable(repo, from_oid) \ Reachable(repo, next))

\* the next entry is a tag of a branch that never merged into `from`, where
\* the parent of `from` carries a release too, which the walk would meet
WitnessIndexBeforeWalk ==
    /\ pc = "done"
    /\ FromIsTagTarget
    /\ FromLastPos < Len(tags)
    /\ repo.time[tags[FromLastPos + 1].oid] < repo.time[from_oid]
    /\ tags[FromLastPos + 1].oid \notin Reachable(repo, from_oid)
    /\ from_oid \notin Reachable(repo, tags[FromLastPos + 1].oid)
    /\ Cardinality(TaggedAncestors) = 2
    /\ Cardinality(Reachable(repo, from_oid)) = 2
    /\ Returned(Reachable(repo, from_oid))

\* no `to` was given and history inferred one
ToIsInferred ==
    /\ pc \in {"walk", "done"}
    /\ to = None
    /\ to_oid # None

\* the branch of the inference that produced `to`
InferenceBranch ==
    IF from_oid \in TagTargets THEN "next catalog entry"
    ELSE IF from_oid = repo.head THEN "newest tag for head"
    ELSE "nearest ancestor tag"

\* C29 as claimed: an inferred `to` is never the commit of `from`, whichever
\* branch inferred it, however many catalog tags point at the commit of
\* `from` and whichever commits share a time; and without a path scope the
\* result of an inferred range always holds the commit of `from`.
InferredToDiffers ==
    ToIsInferred
        => /\ to_oid[1] # from_oid
           /\ (pc = "done" /\ path_filter = None)
                => from_oid \in AsSet(hist_commits)

\* C29 as amended: an inferred `to` is never the commit of `from`; without a
\* path scope the result holds the commit of `from` exactly when that commit
\* is not reachable from the commit of the inferred `to`, which the nearest
\* ancestor tag always satisfies and an entry picked by catalog order need not.
InferredToDiffersAmended ==
    ToIsInferred
        => /\ to_oid[1] # from_oid
           /\ (pc = "done" /\ path_filter = None)
                => /\ from_oid \in AsSet(hist_commits)
                        <=> from_oid \notin Reachable(repo, to_oid[1])
                   /\ InferenceBranch = "nearest ancestor tag"
                        => from_oid \in AsSet(hist_commits)

\* two catalog tags point at the commit of `from`, and the entry after them
\* is a tag of another commit of the same time
WitnessInferredToDiffers ==
    /\ pc = "done"
    /\ ToIsInferred
    /\ InferenceBranch = "next catalog entry"
    /\ Cardinality({k \in DOMAIN tags : tags[k].oid = from_oid}) = 2
    /\ repo.time[to_oid[1]] = repo.time[from_oid]
    /\ from_oid \in AsSet(hist_commits)

\* the head carries no tag and the newest tag is on a commit above it
WitnessInferredToAboveFrom ==
    /\ pc = "done"
    /\ ToIsInferred
    /\ InferenceBranch = "newest tag for head"
    /\ from_oid \in Reachable(repo, to_oid[1])
    /\ hist_commits = <<>>

\* the nearest ancestor tag of a commit that is neither tagged nor the head
WitnessInferredAncestor ==
    /\ pc = "done"
    /\ ToIsInferred
    /\ InferenceBranch = "nearest ancestor tag"
    /\ from_oid \in AsSet(hist_commits)

====
